---------------------------- MODULE Spec2Model ----------------------------
(***************************************************************************)
(* Model of the nfl-pbp feature pipeline:                                  *)
(*   - the stat-calculator engine  (computeTeamStatsForWeek + calculators) *)
(*   - the trend accumulator       (buildSeasonTrends)                     *)
(*   - the evaluation engine       (computeMetrics)                        *)
(* Each engine has its own specification (SpecWeek, SpecTrends,            *)
(* SpecTrendsLong, SpecEval); the variables of the other engines stay at   *)
(* their idle values.                                                      *)
(*                                                                         *)
(* Numbers: JavaScript numbers are modelled as exact rationals <<n, d>>    *)
(* (d > 0, lowest terms).  Values a JSON field may hold are tagged records *)
(* [t |-> "number" | "null" | "undefined", v |-> Int].                     *)
(***************************************************************************)
EXTENDS Integers, Sequences, FiniteSets, TLC

\* ------------------------------------------------------------------ bounds
MaxPlays == 3
MaxWeek == 3
MaxLongWeek == 7
MaxRows == 3

\* ------------------------------------------------------- rational numbers
Abs(x) == IF x < 0 THEN 0 - x ELSE x

RECURSIVE GCD(_, _)
GCD(a, b) == IF b = 0 THEN a ELSE GCD(b, a % b)

RNorm(n, d) ==
  LET g == GCD(Abs(n), d)
  IN  IF g = 0 THEN <<0, 1>> ELSE <<n \div g, d \div g>>

RInt(n) == <<n, 1>>
Zero == <<0, 1>>
One == <<1, 1>>
RAdd(a, b) == RNorm(a[1] * b[2] + b[1] * a[2], a[2] * b[2])
RSub(a, b) == RNorm(a[1] * b[2] - b[1] * a[2], a[2] * b[2])
RMul(a, b) == RNorm(a[1] * b[1], a[2] * b[2])
\* a / b for b # 0
RDiv(a, b) ==
  IF b[1] > 0 THEN RNorm(a[1] * b[2], a[2] * b[1])
  ELSE RNorm((0 - a[1]) * b[2], a[2] * (0 - b[1]))
RLt(a, b) == a[1] * b[2] < b[1] * a[2]
RLe(a, b) == a[1] * b[2] <= b[1] * a[2]
RAbs(a) == <<Abs(a[1]), a[2]>>
RNeg(a) == <<0 - a[1], a[2]>>

\* ---------------------------------------------------- JSON field values
Num(v) == [t |-> "number", v |-> v]
Null == [t |-> "null", v |-> 0]
Undefined == [t |-> "undefined", v |-> 0]
IsNum(x) == x.t = "number"

RECURSIVE SeqsUpTo(_, _)
SeqsUpTo(S, n) ==
  IF n = 0 THEN {<<>>}
  ELSE LET shorter == SeqsUpTo(S, n - 1)
       IN  shorter \cup {Append(s, x) : s \in {q \in shorter : Len(q) = n - 1}, x \in S}


\* Stat mappings: functions from a set of key strings to rationals.
NoStats == <<>>
SPut(stats, key, value) == (key :> value) @@ stats
\* stats[key] ?? 0
StatOr0(stats, key) == IF key \in DOMAIN stats THEN stats[key] ELSE Zero


\* ======================================================================
\* Stat calculator engine
\* ======================================================================
VARIABLES
  plays,           \* the week's play rows consumed so far, in input order
  calcs,           \* the active calculator list (names, in list order)
  allowedStats,    \* the allow-list handed to every context
  teamStatsByKey,  \* insertion-ordered map (game_id::team) -> entry
  fi,              \* position of the finalize loop in teamStatsByKey
  log,             \* calculator lifecycle calls made so far
  wpc,             \* "idle" | "plays" | "finalize" | "done"
  metaLookup       \* loadWeekMeta(season, week): game_id -> GameMeta

weekVars == <<plays, calcs, allowedStats, teamStatsByKey, fi, log, wpc, metaLookup>>

\* ------------------------------------------------------------ play rows
BasePlay ==
  [game_id |-> "g1", posteam |-> "A", defteam |-> "B", play_type |-> "run",
   down |-> Num(2), first_down |-> FALSE, yardline_100 |-> Num(50),
   fixed_drive |-> Num(1), drive |-> Undefined, touchdown |-> FALSE,
   epa |-> Num(1), success |-> FALSE, interception |-> FALSE,
   fumble |-> FALSE, fumble_recovery_1_team |-> "", fumble_recovery_2_team |-> "",
   penalty |-> FALSE, penalty_team |-> "", penalty_yards |-> Undefined,
   half_seconds_remaining |-> Num(900), posteam_score |-> Num(0),
   defteam_score |-> Num(0), drive_play_count |-> Undefined,
   drive_first_downs |-> Undefined, fixed_drive_result |-> ""]

\* The rows a week's play-by-play file is drawn from.
PlayPool ==
  LET
      \* A's first red-zone snap of drive 1 (1st down at the 15).
      RzEntryPlay == [BasePlay EXCEPT !.down = Num(1), !.yardline_100 = Num(15),
                        !.success = TRUE, !.drive_play_count = Num(3),
                        !.drive_first_downs = Num(0)]
      \* A later 1st-down snap of the same drive inside the 20, scoring.
      RzAgainPlay == [BasePlay EXCEPT !.down = Num(1), !.yardline_100 = Num(8),
                        !.play_type = "pass", !.touchdown = TRUE, !.epa = Num(3),
                        !.fixed_drive_result = "Touchdown", !.drive_play_count = Num(6),
                        !.drive_first_downs = Num(2)]
      \* A's 1st-down red-zone snap of another drive.
      RzOtherDrivePlay == [BasePlay EXCEPT !.down = Num(1), !.yardline_100 = Num(20),
                             !.fixed_drive = Num(2), !.fixed_drive_result = "Field goal"]
      \* A converts a 3rd down late in the half.
      ThirdDownPlay == [BasePlay EXCEPT !.down = Num(3), !.play_type = "pass",
                          !.first_down = TRUE, !.half_seconds_remaining = Num(100)]
      \* B throws an interception to A on 1st down inside the 20.
      InterceptionPlay == [BasePlay EXCEPT !.posteam = "B", !.defteam = "A",
                             !.play_type = "pass", !.down = Num(1),
                             !.yardline_100 = Num(12), !.fixed_drive = Num(3),
                             !.interception = TRUE, !.epa = Num(-2),
                             !.fixed_drive_result = "Turnover"]
      \* A loses a fumble to B; B is also flagged.
      FumbleLostPlay == [BasePlay EXCEPT !.fumble = TRUE, !.fumble_recovery_1_team = "B",
                           !.epa = Num(-3), !.penalty = TRUE, !.penalty_team = "B",
                           !.penalty_yards = Num(5), !.posteam_score = Num(14)]
      \* An administrative row without a possessing team.
      NoPosteamPlay == [BasePlay EXCEPT !.posteam = "", !.play_type = "no_play",
                          !.epa = Undefined, !.fixed_drive = Undefined]
      \* B punts on 4th down in another game; drive id and epa are null.
      PuntPlay == [BasePlay EXCEPT !.game_id = "g2", !.posteam = "B", !.defteam = "A",
                     !.play_type = "punt", !.down = Num(4), !.fixed_drive = Null,
                     !.epa = Null, !.yardline_100 = Null]
  IN  {BasePlay, RzEntryPlay, RzAgainPlay, RzOtherDrivePlay, ThirdDownPlay,
       InterceptionPlay, FumbleLostPlay, NoPosteamPlay, PuntPlay}

\* ------------------------------------------------------------- contexts
PrivateKeys == {"_late_down_off_plays", "_late_down_def_plays", "_two_min_off_plays",
                "_two_min_def_plays", "_close_game_off_plays", "_close_game_def_plays"}
\* key.startsWith('_')
IsPrivateKey(key) == key \in PrivateKeys

NoAllowList == [on |-> FALSE, keys |-> {}]

\* The scratch object a calculator stashes under stats._off_eff_state /
\* stats._def_eff_state: a set of red-zone drive ids and a per-drive map.
NoDrives == <<>>
NoEffState == [present |-> FALSE, rzDrives |-> {}, drives |-> NoDrives]
NewEffState == [present |-> TRUE, rzDrives |-> {}, drives |-> NoDrives]

NewEntry(gameId, team) ==
  [game_id |-> gameId, team |-> team, stats |-> NoStats,
   off_eff_state |-> NoEffState, def_eff_state |-> NoEffState]

\* A context shares the entry's stats object (and whatever hangs off it); a
\* property set on the context object itself (rz_drives) lives only as long
\* as that context.
buildStatContext(entry, allowed) ==
  [game_id |-> entry.game_id, team |-> entry.team, stats |-> entry.stats,
   off_eff_state |-> entry.off_eff_state, def_eff_state |-> entry.def_eff_state,
   allowedStats |-> allowed, rz_drives |-> [present |-> FALSE, set |-> {}]]

EntryOf(ctx) ==
  [game_id |-> ctx.game_id, team |-> ctx.team, stats |-> ctx.stats,
   off_eff_state |-> ctx.off_eff_state, def_eff_state |-> ctx.def_eff_state]

\* Faulty variant: the '_' prefix no longer exempts a key from the allow-list.
Writable_AllowListOnly(ctx, key) ==
  ~(ctx.allowedStats.on /\ key \notin ctx.allowedStats.keys)

\* allowedStats && !allowedStats.has(key) && !key.startsWith('_') is false
Writable(ctx, key) ==
  ~(ctx.allowedStats.on /\ key \notin ctx.allowedStats.keys /\ ~IsPrivateKey(key))

addStat(ctx, key, value) ==
  IF ~Writable(ctx, key) THEN ctx
  ELSE [ctx EXCEPT !.stats = SPut(@, key, value)]

incrementStat(ctx, key, by) ==
  IF ~Writable(ctx, key) THEN ctx
  ELSE [ctx EXCEPT !.stats = SPut(@, key, RAdd(StatOr0(@, key), by))]

RECURSIVE RSumOver(_, _)
RSumOver(S, f) ==
  IF S = {} THEN Zero
  ELSE LET x == CHOOSE y \in S : TRUE IN RAdd(f[x], RSumOver(S \ {x}, f))

\* A run of addStat / incrementStat calls whose arguments were already
\* evaluated, <<"add" | "inc", key, value>>, applied in order: a key ends
\* at its last added value (or where it stood) plus the increments after it.
ApplyOps(ctx, ops) ==
  LET W == {i \in 1..Len(ops) : Writable(ctx, ops[i][2])}
      keys == {ops[i][2] : i \in W}
      final(k) ==
        LET adds == {i \in W : ops[i][2] = k /\ ops[i][1] = "add"}
            lastAdd == IF adds = {} THEN 0
                       ELSE CHOOSE i \in adds : \A j \in adds : j <= i
            base == IF lastAdd = 0 THEN StatOr0(ctx.stats, k) ELSE ops[lastAdd][3]
            incs == {i \in W : ops[i][2] = k /\ ops[i][1] = "inc" /\ i > lastAdd}
        IN  RAdd(base, RSumOver(incs, [i \in incs |-> ops[i][3]]))
  IN  IF keys = {} THEN ctx
      ELSE [ctx EXCEPT !.stats = [k \in keys |-> final(k)] @@ @]

When(cond, ops) == IF cond THEN ops ELSE <<>>
Add(key, value) == <<"add", key, value>>
Inc(key) == <<"inc", key, One>>
IncBy(key, by) == <<"inc", key, by>>

safeDiv(num, denom) == IF RLt(Zero, denom) THEN RDiv(num, denom) ELSE Zero

\* typeof val === 'number' ? val : Number(val), kept only when finite
toNumber(val) ==
  IF val.t = "number" THEN val
  ELSE IF val.t = "null" THEN Num(0)
  ELSE Null

isOffPlay(play) == play.play_type \in {"run", "rush", "pass", "sack"}

\* play.fixed_drive ?? play.drive
driveIdOf(play) ==
  IF play.fixed_drive.t \in {"null", "undefined"} THEN play.drive ELSE play.fixed_drive

\* typeof yardline_100 === 'number' && yardline_100 <= 20
inRedZone(play) == IsNum(play.yardline_100) /\ play.yardline_100.v <= 20

\* Faulty variant: the entry starts empty at every play instead of from
\* drives.get(driveId).
trackDrive_Fresh(drives, play) ==
  LET id == driveIdOf(play)
      old == [plays |-> Undefined, first_downs |-> Undefined, result |-> ""]
      e1 == IF play.drive_play_count.t \in {"null", "undefined"} THEN old
            ELSE [old EXCEPT !.plays = play.drive_play_count]
      e2 == IF play.drive_first_downs.t \in {"null", "undefined"} THEN e1
            ELSE [e1 EXCEPT !.first_downs = play.drive_first_downs]
      e3 == IF play.fixed_drive_result = "" THEN e2
            ELSE [e2 EXCEPT !.result = play.fixed_drive_result]
  IN  (id :> e3) @@ drives

\* drives.get(driveId) ?? {}, updated from the play's drive rollups
trackDrive(drives, play) ==
  LET id == driveIdOf(play)
      old == IF id \in DOMAIN drives THEN drives[id]
             ELSE [plays |-> Undefined, first_downs |-> Undefined, result |-> ""]
      e1 == IF play.drive_play_count.t \in {"null", "undefined"} THEN old
            ELSE [old EXCEPT !.plays = play.drive_play_count]
      e2 == IF play.drive_first_downs.t \in {"null", "undefined"} THEN e1
            ELSE [e1 EXCEPT !.first_downs = play.drive_first_downs]
      e3 == IF play.fixed_drive_result = "" THEN e2
            ELSE [e2 EXCEPT !.result = play.fixed_drive_result]
  IN  (id :> e3) @@ drives

drivePoints(result) ==
  CASE result = "Touchdown" -> 7
    [] result = "Field goal" -> 3
    [] result = "Safety" -> 2
    [] OTHER -> 0

RECURSIVE SumOver(_, _)
SumOver(S, f) ==
  IF S = {} THEN 0
  ELSE LET x == CHOOSE y \in S : TRUE IN f[x] + SumOver(S \ {x}, f)


\* ------------------------------------------- offensive_play_count
\* Faulty variant: the play type is not looked at.
offensivePlayCountAccumulate_AnyType(play, ctx) ==
  IF play.posteam # ctx.team THEN ctx
  ELSE incrementStat(ctx, "off_plays", One)

\* turnovers_penalties.ts lines 101-115
offensivePlayCountAccumulate(play, ctx) ==
  IF play.posteam # ctx.team THEN ctx
  ELSE IF ~isOffPlay(play) THEN ctx
  ELSE incrementStat(ctx, "off_plays", One)

\* The copy of lines 226-239, which has no posteam test.
offensivePlayCountAnyAccumulate(play, ctx) ==
  IF ~isOffPlay(play) THEN ctx
  ELSE incrementStat(ctx, "off_plays", One)

\* ------------------------------------------- offense_efficiency
offensiveEfficiencyInit(ctx) ==
  [ApplyOps(ctx, <<Add("off_first_downs_total", Zero), Add("off_3rd_down_att", Zero),
                   Add("off_3rd_down_conv", Zero), Add("off_red_zone_trips", Zero),
                   Add("off_red_zone_tds", Zero)>>)
     EXCEPT !.off_eff_state = NewEffState]

\* A variant that counts every 3rd-down play as an attempt.
offensiveEfficiencyAccumulate_AnyThirdDown(play, ctx) ==
  IF play.posteam # ctx.team THEN ctx
  ELSE
    LET state == IF ctx.off_eff_state.present THEN ctx.off_eff_state ELSE NewEffState
        driveId == driveIdOf(play)
        rzFirst == inRedZone(play) /\ play.down = Num(1) /\ driveId.t # "undefined"
        newTrip == rzFirst /\ driveId \notin state.rzDrives
        tracked == driveId.t \notin {"undefined", "null"}
        state2 == [state EXCEPT
                     !.rzDrives = IF newTrip THEN @ \cup {driveId} ELSE @,
                     !.drives = IF tracked THEN trackDrive(@, play) ELSE @]
        ops ==
             When(play.first_down, <<Inc("off_first_downs_total")>>)
          \o When(play.down = Num(3), <<Inc("off_3rd_down_att")>>)
          \o When(play.down = Num(3) /\ isOffPlay(play) /\ play.first_down,
                  <<Inc("off_3rd_down_conv")>>)
          \o When(newTrip, <<Inc("off_red_zone_trips")>>)
          \o When(inRedZone(play) /\ play.touchdown /\ play.posteam = ctx.team,
                  <<Inc("off_red_zone_tds")>>)
          \o When(play.down = Num(4) /\ isOffPlay(play), <<Inc("off_4th_down_att")>>)
          \o When(play.down = Num(4) /\ isOffPlay(play) /\ play.first_down,
                  <<Inc("off_4th_down_conv")>>)
    IN  [ApplyOps(ctx, ops) EXCEPT !.off_eff_state = state2]

offensiveEfficiencyAccumulate(play, ctx) ==
  IF play.posteam # ctx.team THEN ctx
  ELSE
    LET state == IF ctx.off_eff_state.present THEN ctx.off_eff_state ELSE NewEffState
        driveId == driveIdOf(play)
        rzFirst == inRedZone(play) /\ play.down = Num(1) /\ driveId.t # "undefined"
        newTrip == rzFirst /\ driveId \notin state.rzDrives
        tracked == driveId.t \notin {"undefined", "null"}
        state2 == [state EXCEPT
                     !.rzDrives = IF newTrip THEN @ \cup {driveId} ELSE @,
                     !.drives = IF tracked THEN trackDrive(@, play) ELSE @]
        ops ==
             When(play.first_down, <<Inc("off_first_downs_total")>>)
          \o When(play.down = Num(3) /\ isOffPlay(play), <<Inc("off_3rd_down_att")>>)
          \o When(play.down = Num(3) /\ isOffPlay(play) /\ play.first_down,
                  <<Inc("off_3rd_down_conv")>>)
          \o When(newTrip, <<Inc("off_red_zone_trips")>>)
          \o When(inRedZone(play) /\ play.touchdown /\ play.posteam = ctx.team,
                  <<Inc("off_red_zone_tds")>>)
          \o When(play.down = Num(4) /\ isOffPlay(play), <<Inc("off_4th_down_att")>>)
          \o When(play.down = Num(4) /\ isOffPlay(play) /\ play.first_down,
                  <<Inc("off_4th_down_conv")>>)
    IN  [ApplyOps(ctx, ops) EXCEPT !.off_eff_state = state2]

\* The drive-level and rate part of finalize (everything after the two
\* guarded percentage writes).
offensiveEfficiencyDriveOps(ctx) ==
  LET state == IF ctx.off_eff_state.present THEN ctx.off_eff_state ELSE NewEffState
      drives == state.drives
      ids == DOMAIN drives
      driveCount == Cardinality(ids)
      withResult(R) == Cardinality({d \in ids : drives[d].result \in R})
      threeAndOut == Cardinality({d \in ids :
                        /\ IsNum(drives[d].plays) /\ drives[d].plays.v <= 3
                        /\ (IF IsNum(drives[d].first_downs)
                            THEN drives[d].first_downs.v ELSE 0) = 0})
      totalDrivePoints == SumOver(ids, [d \in ids |-> drivePoints(drives[d].result)])
      st == ctx.stats
      rushAtt == StatOr0(st, "rush_att_off")
      rushYds == StatOr0(st, "rush_yds_off")
      passAtt == StatOr0(st, "pass_att_off")
      passCmp == StatOr0(st, "pass_cmp_off")
      passYds == StatOr0(st, "pass_yds_off")
      sacks == StatOr0(st, "sacks_taken_off")
      sackYds == StatOr0(st, "sack_yards_lost_off")
      offPlays == StatOr0(st, "off_plays")
      offYards == StatOr0(st, "off_yards")
  IN  <<Add("off_drives", RInt(driveCount)),
        Add("off_td_drives", RInt(withResult({"Touchdown"}))),
        Add("off_fg_drives", RInt(withResult({"Field goal"}))),
        Add("off_punt_drives", RInt(withResult({"Punt"}))),
        Add("off_turnover_drives",
            RInt(withResult({"Turnover", "Turnover on downs", "Opp touchdown", "Safety"}))),
        Add("off_3_and_out_drives", RInt(threeAndOut)),
        Add("off_3_and_out_rate", safeDiv(RInt(threeAndOut), RInt(driveCount))),
        Add("off_points_per_drive", safeDiv(RInt(totalDrivePoints), RInt(driveCount))),
        Add("yards_per_rush_off", safeDiv(rushYds, rushAtt)),
        Add("completion_pct_off", safeDiv(passCmp, passAtt)),
        Add("yards_per_play_off", safeDiv(offYards, offPlays)),
        Add("yards_per_pass_attempt_off", safeDiv(passYds, passAtt)),
        Add("net_yards_per_pass_attempt_off",
            safeDiv(RSub(passYds, sackYds), RAdd(passAtt, sacks))),
        Add("off_4th_down_pct",
            safeDiv(StatOr0(st, "off_4th_down_conv"), StatOr0(st, "off_4th_down_att")))>>

offensiveEfficiencyFinalize(ctx) ==
  LET att == StatOr0(ctx.stats, "off_3rd_down_att")
      conv == StatOr0(ctx.stats, "off_3rd_down_conv")
      trips == StatOr0(ctx.stats, "off_red_zone_trips")
      tds == StatOr0(ctx.stats, "off_red_zone_tds")
      ops ==
           When(RLt(Zero, att), <<Add("off_3rd_down_pct", RDiv(conv, att))>>)
        \o When(RLt(Zero, trips), <<Add("off_red_zone_td_pct", RDiv(tds, trips))>>)
        \o offensiveEfficiencyDriveOps(ctx)
  IN  [ApplyOps(ctx, ops) EXCEPT
         !.off_eff_state = IF @.present THEN @ ELSE NewEffState]

\* ------------------------------------------- offense_efficiency, the copy
\* that keeps its red-zone drive set on the context object
offensiveEfficiencyCtxInit(ctx) ==
  [ApplyOps(ctx, <<Add("off_first_downs_total", Zero), Add("off_3rd_down_att", Zero),
                   Add("off_3rd_down_conv", Zero), Add("off_red_zone_trips", Zero),
                   Add("off_red_zone_tds", Zero)>>)
     EXCEPT !.rz_drives = [present |-> TRUE, set |-> {}]]

offensiveEfficiencyCtxAccumulate(play, ctx) ==
  IF play.posteam # ctx.team THEN ctx
  ELSE
    LET driveId == driveIdOf(play)
        rzFirst == inRedZone(play) /\ play.down = Num(1) /\ driveId.t # "undefined"
        \* (ctx as any)._rz_drives ||= new Set()
        set == IF ctx.rz_drives.present THEN ctx.rz_drives.set ELSE {}
        newTrip == rzFirst /\ driveId \notin set
        ops ==
             When(play.first_down, <<Inc("off_first_downs_total")>>)
          \o When(play.down = Num(3) /\ isOffPlay(play), <<Inc("off_3rd_down_att")>>)
          \o When(play.down = Num(3) /\ isOffPlay(play) /\ play.first_down,
                  <<Inc("off_3rd_down_conv")>>)
          \o When(newTrip, <<Inc("off_red_zone_trips")>>)
          \o When(inRedZone(play) /\ play.touchdown /\ play.posteam = ctx.team,
                  <<Inc("off_red_zone_tds")>>)
    IN  [ApplyOps(ctx, ops) EXCEPT
           !.rz_drives = IF rzFirst
                         THEN [present |-> TRUE,
                               set |-> IF newTrip THEN set \cup {driveId} ELSE set]
                         ELSE @]

offensiveEfficiencyCtxFinalize(ctx) ==
  LET att == StatOr0(ctx.stats, "off_3rd_down_att")
      conv == StatOr0(ctx.stats, "off_3rd_down_conv")
      trips == StatOr0(ctx.stats, "off_red_zone_trips")
      tds == StatOr0(ctx.stats, "off_red_zone_tds")
  IN  ApplyOps(ctx,
           When(RLt(Zero, att), <<Add("off_3rd_down_pct", RDiv(conv, att))>>)
        \o When(RLt(Zero, trips), <<Add("off_red_zone_td_pct", RDiv(tds, trips))>>))

\* ------------------------------------------- scaffolds
\* stats.forEach((key) => { if (ctx.stats[key] === undefined) ctx.addStat(key, 0) })
\* Faulty variant: a scaffold that adds nothing.
scaffoldFinalize_Nothing(keys, ctx) == ctx

scaffoldFinalize(keys, ctx) ==
  LET isMissing(o) == o[2] \notin DOMAIN ctx.stats
  IN  ApplyOps(ctx, SelectSeq([i \in 1..Len(keys) |-> Add(keys[i], Zero)], isMissing))

OFFENSE_EFFICIENCY_STATS ==
  <<"off_3rd_down_att", "off_3rd_down_conv", "off_3rd_down_pct", "off_red_zone_trips",
    "off_red_zone_tds", "off_red_zone_td_pct", "yards_per_play_off", "yards_per_rush_off",
    "yards_per_pass_attempt_off", "net_yards_per_pass_attempt_off", "completion_pct_off",
    "off_drives", "off_points_per_drive", "off_td_drives", "off_fg_drives",
    "off_punt_drives", "off_turnover_drives", "off_3_and_out_drives",
    "off_3_and_out_rate", "off_4th_down_att", "off_4th_down_conv", "off_4th_down_pct">>

offenseEfficiencyScaffoldFinalize(ctx) == scaffoldFinalize(OFFENSE_EFFICIENCY_STATS, ctx)


\* ------------------------------------------- advanced_epa_success
advancedEpaSuccessInit(ctx) ==
  ApplyOps(ctx, <<Add("off_total_epa", Zero), Add("off_success_plays", Zero),
                  Add("off_plays", Zero), Add("off_rush_plays", Zero),
                  Add("off_pass_plays", Zero), Add("def_total_epa_allowed", Zero),
                  Add("def_success_plays", Zero), Add("def_plays", Zero),
                  Add("def_rush_plays", Zero), Add("def_pass_plays", Zero)>>)

advancedEpaSuccessAccumulate(play, ctx) ==
  LET n == toNumber(play.epa)
      epa == IF IsNum(n) THEN RInt(n.v) ELSE Zero
      isRush == play.play_type \in {"run", "rush"}
      isPass == play.play_type \in {"pass", "sack"}
      side(cond, total, cnt, rushCnt, rushEpa, passCnt, passEpa, succ) ==
        When(cond,
             <<IncBy(total, epa), Inc(cnt)>>
          \o When(isRush, <<Inc(rushCnt), IncBy(rushEpa, epa)>>)
          \o When(isPass, <<Inc(passCnt), IncBy(passEpa, epa)>>)
          \o When(play.success, <<Inc(succ)>>))
  IN  ApplyOps(ctx,
           side(play.posteam = ctx.team /\ isOffPlay(play), "off_total_epa", "off_plays",
                "off_rush_plays", "off_epa_per_rush", "off_pass_plays",
                "off_epa_per_pass", "off_success_plays")
        \o side(play.defteam = ctx.team /\ isOffPlay(play), "def_total_epa_allowed",
                "def_plays", "def_rush_plays", "def_epa_per_rush", "def_pass_plays",
                "def_epa_per_pass", "def_success_plays"))

advancedEpaSuccessFinalize(ctx) ==
  LET st == ctx.stats
  IN  ApplyOps(ctx,
        <<Add("off_epa_per_play",
              safeDiv(StatOr0(st, "off_total_epa"), StatOr0(st, "off_plays"))),
          Add("off_epa_per_rush",
              safeDiv(StatOr0(st, "off_epa_per_rush"), StatOr0(st, "off_rush_plays"))),
          Add("off_epa_per_pass",
              safeDiv(StatOr0(st, "off_epa_per_pass"), StatOr0(st, "off_pass_plays"))),
          Add("off_success_rate",
              safeDiv(StatOr0(st, "off_success_plays"), StatOr0(st, "off_plays"))),
          Add("def_epa_per_play",
              safeDiv(StatOr0(st, "def_total_epa_allowed"), StatOr0(st, "def_plays"))),
          Add("def_epa_per_rush",
              safeDiv(StatOr0(st, "def_epa_per_rush"), StatOr0(st, "def_rush_plays"))),
          Add("def_epa_per_pass",
              safeDiv(StatOr0(st, "def_epa_per_pass"), StatOr0(st, "def_pass_plays"))),
          Add("def_success_rate",
              safeDiv(StatOr0(st, "def_success_plays"), StatOr0(st, "def_plays")))>>)

\* ------------------------------------------- turnovers_penalties
turnoversPenaltiesInit(ctx) ==
  ApplyOps(ctx, <<Add("turnovers_off", Zero), Add("takeaways", Zero),
                  Add("total_penalties", Zero), Add("total_penalty_yards", Zero)>>)

\* [fumble_recovery_1_team, fumble_recovery_2_team].filter(Boolean)
recTeamsOf(play) == {play.fumble_recovery_1_team, play.fumble_recovery_2_team} \ {""}

turnoversPenaltiesAccumulate(play, ctx) ==
  LET recTeams == recTeamsOf(play)
      penYds == toNumber(play.penalty_yards)
      isOff == play.posteam = ctx.team
      isDef == play.defteam = ctx.team
      flagged == play.penalty /\ play.penalty_team = ctx.team
  IN  ApplyOps(ctx,
           When(isOff /\ play.interception, <<Inc("turnovers_off")>>)
        \o When(isOff /\ play.fumble /\ recTeams # {}
                  /\ \A t \in recTeams : t # ctx.team, <<Inc("turnovers_off")>>)
        \o When(isDef /\ play.interception, <<Inc("takeaways")>>)
        \o When(isDef /\ play.fumble /\ \E t \in recTeams : t = ctx.team,
                <<Inc("takeaways")>>)
        \o When(flagged, <<Inc("total_penalties")>>)
        \o When(flagged /\ IsNum(penYds), <<IncBy("total_penalty_yards", RInt(penYds.v))>>))

\* Faulty variant: the margin adds the giveaways instead of subtracting them.
turnoversPenaltiesFinalize_Sum(ctx) ==
  LET takeaways == StatOr0(ctx.stats, "takeaways")
      turnovers == StatOr0(ctx.stats, "turnovers_off")
      margin == RAdd(takeaways, turnovers)
  IN  ApplyOps(ctx,
        <<Add("turnover_margin", margin), Add("turnover_margin_per_game", margin),
          Add("penalties_per_game", StatOr0(ctx.stats, "total_penalties")),
          Add("penalty_yards_per_game", StatOr0(ctx.stats, "total_penalty_yards"))>>)

turnoversPenaltiesFinalize(ctx) ==
  LET takeaways == StatOr0(ctx.stats, "takeaways")
      turnovers == StatOr0(ctx.stats, "turnovers_off")
      margin == RSub(takeaways, turnovers)
  IN  ApplyOps(ctx,
        <<Add("turnover_margin", margin), Add("turnover_margin_per_game", margin),
          Add("penalties_per_game", StatOr0(ctx.stats, "total_penalties")),
          Add("penalty_yards_per_game", StatOr0(ctx.stats, "total_penalty_yards"))>>)

\* ------------------------------------------- defense_efficiency
defenseEfficiencyInit(ctx) ==
  [ApplyOps(ctx, <<Add("def_3rd_down_att", Zero), Add("def_3rd_down_conv", Zero),
                   Add("def_red_zone_trips_allowed", Zero),
                   Add("def_red_zone_tds_allowed", Zero)>>)
     EXCEPT !.def_eff_state = NewEffState]

defenseEfficiencyAccumulate(play, ctx) ==
  IF play.defteam # ctx.team THEN ctx
  ELSE
    LET state == IF ctx.def_eff_state.present THEN ctx.def_eff_state ELSE NewEffState
        driveId == driveIdOf(play)
        rzFirst == inRedZone(play) /\ play.down = Num(1) /\ driveId.t # "undefined"
        newTrip == rzFirst /\ driveId \notin state.rzDrives
        tracked == driveId.t \notin {"undefined", "null"}
        state2 == [state EXCEPT
                     !.rzDrives = IF newTrip THEN @ \cup {driveId} ELSE @,
                     !.drives = IF tracked THEN trackDrive(@, play) ELSE @]
        ops ==
             When(play.down = Num(3) /\ isOffPlay(play), <<Inc("def_3rd_down_att")>>)
          \o When(play.down = Num(3) /\ isOffPlay(play) /\ play.first_down,
                  <<Inc("def_3rd_down_conv")>>)
          \o When(newTrip, <<Inc("def_red_zone_trips_allowed")>>)
          \o When(inRedZone(play) /\ play.touchdown /\ play.posteam # ctx.team,
                  <<Inc("def_red_zone_tds_allowed")>>)
    IN  [ApplyOps(ctx, ops) EXCEPT !.def_eff_state = state2]

defenseEfficiencyFinalize(ctx) ==
  LET st == ctx.stats
      state == IF ctx.def_eff_state.present THEN ctx.def_eff_state ELSE NewEffState
      drives == state.drives
      ids == DOMAIN drives
      driveCount == Cardinality(ids)
      withResult(R) == Cardinality({d \in ids : drives[d].result \in R})
      totalPointsAllowed == SumOver(ids, [d \in ids |-> drivePoints(drives[d].result)])
      takeaways == RAdd(StatOr0(st, "ints_def"), StatOr0(st, "fumble_recoveries_def"))
      passAtt == StatOr0(st, "pass_att_def")
      passYds == StatOr0(st, "pass_yds_allowed")
      ops ==
        <<Add("def_3rd_down_pct",
              safeDiv(StatOr0(st, "def_3rd_down_conv"), StatOr0(st, "def_3rd_down_att"))),
          Add("def_red_zone_td_pct_allowed",
              safeDiv(StatOr0(st, "def_red_zone_tds_allowed"),
                      StatOr0(st, "def_red_zone_trips_allowed"))),
          Add("def_drives", RInt(driveCount)),
          Add("def_td_drives_allowed", RInt(withResult({"Touchdown"}))),
          Add("def_fg_drives_allowed", RInt(withResult({"Field goal"}))),
          Add("def_points_per_drive", safeDiv(RInt(totalPointsAllowed), RInt(driveCount))),
          Add("takeaways", takeaways),
          Add("takeaways_per_game", takeaways),
          Add("yards_per_play_def",
              safeDiv(StatOr0(st, "def_yards_allowed"), StatOr0(st, "def_plays"))),
          Add("yards_per_rush_def",
              safeDiv(StatOr0(st, "rush_yds_allowed"), StatOr0(st, "rush_att_def"))),
          Add("yards_per_pass_attempt_def", safeDiv(passYds, passAtt)),
          Add("net_yards_per_pass_attempt_def",
              safeDiv(RAdd(passYds, StatOr0(st, "sack_yards_def")),
                      RAdd(passAtt, StatOr0(st, "sacks_def")))),
          Add("completion_pct_def", safeDiv(StatOr0(st, "pass_cmp_def"), passAtt))>>
  IN  [ApplyOps(ctx, ops) EXCEPT
         !.def_eff_state = IF @.present THEN @ ELSE NewEffState]

\* ------------------------------------------- situational_leverage
situationalLeverageInit(ctx) ==
  ApplyOps(ctx, <<Add("late_down_epa_off", Zero), Add("late_down_epa_def", Zero),
                  Add("two_min_epa_off", Zero), Add("two_min_epa_def", Zero),
                  Add("close_game_epa_off", Zero), Add("close_game_epa_def", Zero),
                  Add("_late_down_off_plays", Zero), Add("_late_down_def_plays", Zero),
                  Add("_two_min_off_plays", Zero), Add("_two_min_def_plays", Zero),
                  Add("_close_game_off_plays", Zero), Add("_close_game_def_plays", Zero)>>)

situationalLeverageAccumulate(play, ctx) ==
  LET epaN == toNumber(play.epa)
      epa == RInt(epaN.v)
      down == toNumber(play.down)
      halfRemain == toNumber(play.half_seconds_remaining)
      ps == toNumber(play.posteam_score)
      ds == toNumber(play.defteam_score)
      close == IsNum(ps) /\ IsNum(ds) /\ Abs(ps.v - ds.v) <= 8
      isOff == play.posteam = ctx.team
      isDef == play.defteam = ctx.team
      both(cond, offEpa, offCnt, defEpa, defCnt) ==
        When(cond,
             When(isOff, <<IncBy(offEpa, epa), Inc(offCnt)>>)
          \o When(isDef, <<IncBy(defEpa, epa), Inc(defCnt)>>))
  IN  IF ~IsNum(epaN) THEN ctx
      ELSE ApplyOps(ctx,
               both(down = Num(3) \/ down = Num(4), "late_down_epa_off",
                    "_late_down_off_plays", "late_down_epa_def", "_late_down_def_plays")
            \o both(IsNum(halfRemain) /\ halfRemain.v <= 120, "two_min_epa_off",
                    "_two_min_off_plays", "two_min_epa_def", "_two_min_def_plays")
            \o both(close, "close_game_epa_off", "_close_game_off_plays",
                    "close_game_epa_def", "_close_game_def_plays"))

situationalLeverageFinalize(ctx) ==
  LET st == ctx.stats
      rate(sum, cnt) == Add(sum, safeDiv(StatOr0(st, sum), StatOr0(st, cnt)))
  IN  ApplyOps(ctx,
        <<rate("late_down_epa_off", "_late_down_off_plays"),
          rate("late_down_epa_def", "_late_down_def_plays"),
          rate("two_min_epa_off", "_two_min_off_plays"),
          rate("two_min_epa_def", "_two_min_def_plays"),
          rate("close_game_epa_off", "_close_game_off_plays"),
          rate("close_game_epa_def", "_close_game_def_plays")>>)


\* ------------------------------------------- results
\* Faulty variant: every team is given the home side's points.
resultsFinalize_HomeAlways(ctx) ==
  IF ctx.game_id \notin DOMAIN metaLookup THEN ctx
  ELSE
    LET meta == metaLookup[ctx.game_id]
    IN  IF meta.home_score.t = "undefined" \/ meta.away_score.t = "undefined" THEN ctx
        ELSE
          LET diff == RInt(meta.home_score.v - meta.away_score.v)
              isOneScore == RLe(RAbs(diff), RInt(8))
          IN  ApplyOps(ctx,
                <<Add("points_for", RInt(meta.home_score.v)),
                  Add("points_against", RInt(meta.away_score.v)),
                  Add("point_differential", diff),
                  Add("one_score_games_played", IF isOneScore THEN One ELSE Zero),
                  Add("one_score_win_pct",
                      IF isOneScore /\ RLt(Zero, diff) THEN One ELSE Zero)>>)

\* metaLookup.get(ctx.game_id) of the calculator's closure; a score is a
\* tagged value, "undefined" when the meta file has no result.
resultsFinalize(ctx) ==
  IF ctx.game_id \notin DOMAIN metaLookup THEN ctx
  ELSE
    LET meta == metaLookup[ctx.game_id]
        isHome == meta.home_team = ctx.team
        pointsFor == IF isHome THEN meta.home_score ELSE meta.away_score
        pointsAgainst == IF isHome THEN meta.away_score ELSE meta.home_score
    IN  IF pointsFor.t = "undefined" \/ pointsAgainst.t = "undefined" THEN ctx
        ELSE
          LET for == RInt(pointsFor.v)
              against == RInt(pointsAgainst.v)
              diff == RSub(for, against)
              isOneScore == RLe(RAbs(diff), RInt(8))
              oneScoreWin == IF isOneScore /\ RLt(Zero, diff) THEN One ELSE Zero
          IN  ApplyOps(ctx,
                <<Add("points_for", for), Add("points_against", against),
                  Add("point_differential", diff),
                  Add("points_for_per_game", RDiv(for, One)),
                  Add("points_against_per_game", RDiv(against, One)),
                  Add("scoring_margin_per_game", RDiv(diff, One)),
                  Add("one_score_games_played", IF isOneScore THEN One ELSE Zero),
                  Add("one_score_win_pct",
                      IF isOneScore THEN RDiv(oneScoreWin, One) ELSE Zero)>>)

RESULTS_STATS ==
  <<"games_played", "wins", "losses", "ties", "win_pct", "points_for", "points_against",
    "point_differential", "points_for_per_game", "points_against_per_game",
    "scoring_margin_per_game", "one_score_games_played", "one_score_win_pct">>

OFFENSE_BASIC_STATS ==
  <<"off_plays", "off_yards", "off_first_downs_total", "off_first_downs_rush",
    "off_first_downs_pass", "off_first_downs_penalty", "rush_att_off", "rush_yds_off",
    "rush_tds_off", "pass_att_off", "pass_cmp_off", "pass_yds_off", "pass_tds_off",
    "ints_thrown_off", "sacks_taken_off", "sack_yards_lost_off", "fum_off",
    "lost_fum_off", "yards_after_catch_off", "yards_after_contact_off",
    "broken_tackles_off", "tackles_for_loss_allowed">>

\* ------------------------------------------- the schema document
\* loadSchemaGroups(): the stat keys of each group of stats-schema.json.
SchemaGroupTable ==
  [offense_basic |-> <<"off_plays", "off_yards">>,
   offense_efficiency |-> <<"off_3rd_down_att", "off_3rd_down_conv", "off_3rd_down_pct",
                            "off_red_zone_trips", "off_red_zone_td_pct">>,
   results |-> <<"points_for", "points_against", "point_differential",
                 "one_score_games_played", "one_score_win_pct", "wins">>,
   special_teams |-> <<"punts", "fg_att">>,
   turnovers_penalties |-> <<"turnover_margin">>]

\* The scaffold buildCalculators pushes for a group: a named builder for
\* the groups of its switch, `scaffold_${groupName}` otherwise.
ScaffoldName ==
  [offense_basic |-> "scaffold_offense_basic",
   offense_efficiency |-> "scaffold_offense_efficiency",
   results |-> "scaffold_results",
   special_teams |-> "special_teams_scaffold",
   turnovers_penalties |-> "turnovers_penalties_scaffold"]

GroupScaffolds == {ScaffoldName[g] : g \in DOMAIN ScaffoldName}

\* the `stats` array a group scaffold was built with
StatsOfScaffold(name) ==
  SchemaGroupTable[CHOOSE g \in DOMAIN ScaffoldName : ScaffoldName[g] = name]

\* ------------------------------------------- defense_basic
\* Columns the play rows here do not carry (yards_gained, rushing_yards,
\* passing_yards, sack_yards, pass_attempt, complete_pass, pass_touchdown,
\* rush_touchdown, sack, fumbled_1_team, fumbled_2_team, td_team) read as
\* undefined: toNumber gives null and the flags are falsy.
defenseBasicAccumulate(play, ctx) ==
  IF play.defteam # ctx.team THEN ctx
  ELSE
    LET playType == play.play_type
        penYds == toNumber(play.penalty_yards)
        ops ==
             When(isOffPlay(play), <<Inc("def_plays")>>)
          \o When(playType \in {"run", "rush"},
                  <<Inc("rush_att_def")>> \o When(play.touchdown, <<Inc("rush_tds_allowed")>>))
          \o When(playType \in {"pass", "sack"}, <<Inc("pass_att_def")>>)
          \o When(playType = "sack", <<Inc("sacks_def")>>)
          \o When(play.interception, <<Inc("ints_def")>>)
          \o When(play.fumble /\ (play.fumble_recovery_1_team = ctx.team
                                   \/ play.fumble_recovery_2_team = ctx.team),
                  <<Inc("fumble_recoveries_def")>>)
          \o When(play.penalty /\ play.penalty_team = ctx.team,
                  <<Inc("defensive_penalties")>>
                  \o When(IsNum(penYds), <<IncBy("defensive_penalty_yards", RInt(penYds.v))>>))
    IN  ApplyOps(ctx, ops)

\* ------------------------------------------- schedule_adjusted
scheduleAdjustedInit(ctx) ==
  ApplyOps(ctx, <<Add("avg_opponent_off_epa_per_play", Zero),
                  Add("avg_opponent_def_epa_per_play", Zero),
                  Add("off_epa_per_play_adj", Zero), Add("def_epa_per_play_adj", Zero),
                  Add("strength_of_schedule_simple", Zero),
                  Add("strength_of_schedule_epa", Zero)>>)

\* Faulty variant: the adjusted values keep the placeholder of init.
scheduleAdjustedFinalize_Placeholder(ctx) == ctx

scheduleAdjustedFinalize(ctx) ==
  LET offEpaPerPlay == StatOr0(ctx.stats, "off_epa_per_play")
      defEpaPerPlay == StatOr0(ctx.stats, "def_epa_per_play")
  IN  addStat(addStat(ctx, "off_epa_per_play_adj", offEpaPerPlay),
              "def_epa_per_play_adj", defEpaPerPlay)

\* ------------------------------------------- calculator dispatch
\* calc.init?.(ctx) / calc.accumulate?.(row, ctx) / calc.finalize?.(ctx)
HasInit(name) ==
  name \in {"offense_efficiency", "offense_efficiency_ctx", "advanced_epa_success",
            "turnovers_penalties", "defense_efficiency", "situational_leverage",
            "schedule_adjusted"}
HasAccumulate(name) ==
  name \in {"offensive_play_count", "offensive_play_count_any", "offense_efficiency", "offense_efficiency_ctx",
            "advanced_epa_success", "turnovers_penalties", "defense_efficiency",
            "situational_leverage", "defense_basic"}
HasFinalize(name) ==
  name \in {"offense_efficiency", "offense_efficiency_ctx", "offense_efficiency_scaffold",
            "advanced_epa_success", "turnovers_penalties", "defense_efficiency",
            "situational_leverage", "offense_basic_scaffold", "results_stats",
            "results_scaffold", "schedule_adjusted"} \cup GroupScaffolds

CalcInit(name, ctx) ==
  CASE name = "offense_efficiency" -> offensiveEfficiencyInit(ctx)
    [] name = "offense_efficiency_ctx" -> offensiveEfficiencyCtxInit(ctx)
    [] name = "advanced_epa_success" -> advancedEpaSuccessInit(ctx)
    [] name = "turnovers_penalties" -> turnoversPenaltiesInit(ctx)
    [] name = "defense_efficiency" -> defenseEfficiencyInit(ctx)
    [] name = "situational_leverage" -> situationalLeverageInit(ctx)
    [] name = "schedule_adjusted" -> scheduleAdjustedInit(ctx)
    [] OTHER -> ctx

CalcAccumulate(name, play, ctx) ==
  CASE name = "offensive_play_count" -> offensivePlayCountAccumulate(play, ctx)
    [] name = "offensive_play_count_any" -> offensivePlayCountAnyAccumulate(play, ctx)
    [] name = "offense_efficiency" -> offensiveEfficiencyAccumulate(play, ctx)
    [] name = "offense_efficiency_ctx" -> offensiveEfficiencyCtxAccumulate(play, ctx)
    [] name = "advanced_epa_success" -> advancedEpaSuccessAccumulate(play, ctx)
    [] name = "turnovers_penalties" -> turnoversPenaltiesAccumulate(play, ctx)
    [] name = "defense_efficiency" -> defenseEfficiencyAccumulate(play, ctx)
    [] name = "situational_leverage" -> situationalLeverageAccumulate(play, ctx)
    [] name = "defense_basic" -> defenseBasicAccumulate(play, ctx)
    [] OTHER -> ctx

CalcFinalize(name, ctx) ==
  CASE name = "offense_efficiency" -> offensiveEfficiencyFinalize(ctx)
    [] name = "offense_efficiency_ctx" -> offensiveEfficiencyCtxFinalize(ctx)
    [] name = "offense_efficiency_scaffold" -> offenseEfficiencyScaffoldFinalize(ctx)
    [] name = "advanced_epa_success" -> advancedEpaSuccessFinalize(ctx)
    [] name = "turnovers_penalties" -> turnoversPenaltiesFinalize(ctx)
    [] name = "defense_efficiency" -> defenseEfficiencyFinalize(ctx)
    [] name = "situational_leverage" -> situationalLeverageFinalize(ctx)
    [] name = "offense_basic_scaffold" -> scaffoldFinalize(OFFENSE_BASIC_STATS, ctx)
    [] name = "results_stats" -> resultsFinalize(ctx)
    [] name = "results_scaffold" -> scaffoldFinalize(RESULTS_STATS, ctx)
    [] name = "schedule_adjusted" -> scheduleAdjustedFinalize(ctx)
    [] name \in GroupScaffolds -> scaffoldFinalize(StatsOfScaffold(name), ctx)
    [] OTHER -> ctx

\* calcs.forEach((calc) => calc.init?.(ctx))
RECURSIVE RunInit(_, _)
RunInit(cs, ctx) ==
  IF cs = <<>> THEN ctx ELSE RunInit(Tail(cs), CalcInit(Head(cs), ctx))

\* calcs.forEach((calc) => calc.accumulate?.(row, ctx))
RECURSIVE RunAccumulate(_, _, _)
RunAccumulate(cs, row, ctx) ==
  IF cs = <<>> THEN ctx ELSE RunAccumulate(Tail(cs), row, CalcAccumulate(Head(cs), row, ctx))

\* calcs.forEach((calc) => calc.finalize?.(ctx))
RECURSIVE RunFinalize(_, _)
RunFinalize(cs, ctx) ==
  IF cs = <<>> THEN ctx ELSE RunFinalize(Tail(cs), CalcFinalize(Head(cs), ctx))

\* The calls a forEach over the list makes, as log events.
CallEvents(kind, cs, gameId, team, playNo) ==
  LET has(name) == CASE kind = "init" -> HasInit(name)
                     [] kind = "accumulate" -> HasAccumulate(name)
                     [] OTHER -> HasFinalize(name)
      all == [i \in 1..Len(cs) |->
                [kind |-> kind, calc |-> i, game_id |-> gameId, team |-> team,
                 play |-> playNo]]
      keep(e) == has(cs[e.calc])
  IN  SelectSeq(all, keep)

\* Faulty variant: the key lookup never finds an existing context.
KeyIndex_NeverFound(map, gameId, team) == 0

\* teamStatsByKey.has(`${gameId}::${team}`): position of the key, 0 if absent
KeyIndex(map, gameId, team) ==
  IF \E i \in 1..Len(map) : map[i].game_id = gameId /\ map[i].team = team
  THEN CHOOSE i \in 1..Len(map) : map[i].game_id = gameId /\ map[i].team = team
  ELSE 0

\* ------------------------------------------- inputs of the week engine
CalcLists ==
  { <<"offensive_play_count", "offense_efficiency", "offense_efficiency_scaffold">>,
    <<"offense_efficiency">>,
    <<"offense_efficiency_ctx", "offense_efficiency_scaffold">>,
    <<"advanced_epa_success", "turnovers_penalties", "defense_efficiency",
      "situational_leverage">>,
    <<"defense_efficiency", "turnovers_penalties">> }

\* Keys the schema document declares: every public key of the calculators
\* above except the single-game "_per_game" duplicates.
SchemaKeys ==
  {"off_plays", "off_first_downs_total", "off_3rd_down_att", "off_3rd_down_conv",
   "off_3rd_down_pct", "off_red_zone_trips", "off_red_zone_tds", "off_red_zone_td_pct",
   "off_4th_down_att", "off_4th_down_conv", "off_4th_down_pct", "off_drives",
   "off_td_drives", "off_fg_drives", "off_punt_drives", "off_turnover_drives",
   "off_3_and_out_drives", "off_3_and_out_rate", "off_points_per_drive",
   "yards_per_rush_off", "completion_pct_off", "yards_per_play_off",
   "yards_per_pass_attempt_off", "net_yards_per_pass_attempt_off",
   "off_total_epa", "off_success_plays", "off_rush_plays", "off_pass_plays",
   "off_epa_per_play", "off_epa_per_rush", "off_epa_per_pass", "off_success_rate",
   "def_total_epa_allowed", "def_success_plays", "def_plays", "def_rush_plays",
   "def_pass_plays", "def_epa_per_play", "def_epa_per_rush", "def_epa_per_pass",
   "def_success_rate", "turnovers_off", "takeaways", "total_penalties",
   "total_penalty_yards", "turnover_margin", "def_3rd_down_att", "def_3rd_down_conv",
   "def_3rd_down_pct", "def_red_zone_trips_allowed", "def_red_zone_tds_allowed",
   "def_red_zone_td_pct_allowed", "def_drives", "def_td_drives_allowed",
   "def_fg_drives_allowed", "def_points_per_drive", "yards_per_play_def",
   "yards_per_rush_def", "yards_per_pass_attempt_def", "net_yards_per_pass_attempt_def",
   "completion_pct_def", "late_down_epa_off", "late_down_epa_def", "two_min_epa_off",
   "two_min_epa_def", "close_game_epa_off", "close_game_epa_def"}

SchemaAllowList == [on |-> TRUE, keys |-> SchemaKeys]

\* The (calculator list, allow-list) pairs a week is computed with:
\* loadAllowedStats() is null without a schema document, else its keys.
WeekConfigs ==
  {<<cs, NoAllowList>> : cs \in CalcLists}
  \cup
  {<<cs, SchemaAllowList>> :
      cs \in {<<"offensive_play_count", "offense_efficiency", "offense_efficiency_scaffold">>,
              <<"advanced_epa_success", "turnovers_penalties", "defense_efficiency",
                "situational_leverage">>}}

\* ------------------------------------------- state of the other stages
\* Trend accumulator (03_build_trends.ts), run twice side by side on two
\* derived-stat trees: season1/season2 are the week files consumed so far,
\* run1/run2 the accumulator state (historyByTeam, metaByGameId and the
\* trendsForWeek array of the last week file); weeks is the array
\* listSeasonWeeks returned when the run starts from a directory listing.
VARIABLES twk, lastWeek, season1, season2, run1, run2, tpc, weeks

trendVars == <<twk, lastWeek, season1, season2, run1, run2, tpc, weeks>>

\* Evaluation (08_evaluate_margin_model.ts): the result rows, the map
\* loadMeta() returns, the forEach position, the running correct count and
\* buckets, one record per visited row, and the returned metrics.
VARIABLES rows, metaByGame, ei, correct, buckets, visited, metrics, epc

evalVars == <<rows, metaByGame, ei, correct, buckets, visited, metrics, epc>>

\* Collation (04_collate_data.ts, mergeRows): the derived and meta rows of one
\* week, the metaByGameId map in insertion order, the derivedByGameTeam map,
\* the forEach position and the merged rows.
VARIABLES cDerived, cMeta, mergeMeta, mergeDerived, mi, merged, mpc

collateVars == <<cDerived, cMeta, mergeMeta, mergeDerived, mi, merged, mpc>>

\* Outputs of the evaluation (08_evaluate_margin_model.ts, writeMetrics and
\* persistHistory): metrics.json, the two history files, how the history
\* started, and the evaluation runs so far.
VARIABLES metricsJson, historyJsonl, historyCsv, hStart, runsTried, runsPersisted

historyVars == <<metricsJson, historyJsonl, historyCsv, hStart, runsTried, runsPersisted>>

\* Calculator unit test (calculators/__tests__/calculators.test.ts): the
\* calculator under test, the context createContext() made, and the plays
\* passed to accumulate so far, and whether finalize was called.
VARIABLES tCalc, tCtx, tPlays, tFinalized

testVars == <<tCalc, tCtx, tPlays, tFinalized>>

\* Pipeline runner (pipeline.ts): the parsed command line, the position of
\* (scenario, dry-run, list-scenarios, week), the position of main() and of
\* the for loop of runPipeline, the steps whose action was
\* invoked and the steps that completed, the index of the step that failed
\* (0 when none did), the error main().catch receives, and process.exitCode.
VARIABLES pScenario, pDryRun, pList, pWeek, pIdx, pPhase, pStarted, pCompleted, pFailed,
          pError, exitCode

pipeVars ==
  <<pScenario, pDryRun, pList, pWeek, pIdx, pPhase, pStarted, pCompleted, pFailed, pError,
    exitCode>>

laterVars == <<collateVars, historyVars, testVars, pipeVars>>

vars == <<weekVars, trendVars, evalVars, laterVars>>

Teams == {"A", "B"}

NoRun ==
  [historyByTeam |-> [t \in Teams |-> <<>>], metaByGameId |-> <<>>, trendsForWeek |-> <<>>]

TrendsIdle ==
  /\ twk = 0 /\ lastWeek = 0 /\ season1 = <<>> /\ season2 = <<>>
  /\ run1 = NoRun /\ run2 = NoRun /\ tpc = "idle" /\ weeks = <<>>

NoMetrics == [samples |-> 0]

EvalIdle ==
  /\ rows = <<>> /\ metaByGame = <<>> /\ ei = 0 /\ correct = 0
  /\ buckets = <<>> /\ visited = <<>> /\ metrics = NoMetrics /\ epc = "idle"

CollateIdle ==
  /\ cDerived = <<>> /\ cMeta = <<>> /\ mergeMeta = <<>> /\ mergeDerived = <<>>
  /\ mi = 0 /\ merged = <<>> /\ mpc = "idle"

NoSuchFile == [exists |-> FALSE, lines |-> <<>>]

HistoryIdle ==
  /\ metricsJson = NoSuchFile
  /\ historyJsonl = NoSuchFile /\ historyCsv = NoSuchFile /\ hStart = "idle"
  /\ runsTried = 0 /\ runsPersisted = 0

TestIdle == tCalc = "" /\ tCtx = <<>> /\ tPlays = <<>> /\ tFinalized = FALSE

PipeIdle ==
  /\ pScenario = "" /\ pDryRun = FALSE /\ pList = FALSE /\ pWeek = Undefined /\ pIdx = 0
  /\ pPhase = "idle" /\ pStarted = <<>> /\ pCompleted = <<>> /\ pFailed = 0
  /\ pError = "" /\ exitCode = Undefined

LaterIdle == CollateIdle /\ HistoryIdle /\ TestIdle /\ PipeIdle

\* ------------------------------------------- computeTeamStatsForWeek
WeekIdle ==
  /\ plays = <<>> /\ calcs = <<>> /\ allowedStats = NoAllowList
  /\ teamStatsByKey = <<>> /\ fi = 0 /\ log = <<>> /\ wpc = "idle"
  /\ metaLookup = <<>>

WeekInit ==
  /\ plays = <<>>
  /\ \E cfg \in WeekConfigs : calcs = cfg[1] /\ allowedStats = cfg[2]
  /\ teamStatsByKey = <<>>
  /\ fi = 0
  /\ log = <<>>
  /\ wpc = "plays"
  /\ metaLookup = <<>>
  /\ TrendsIdle
  /\ EvalIdle
  /\ LaterIdle

\* One iteration of `for (const row of rows)`.
ProcessPlay(row) ==
  /\ wpc = "plays"
  /\ Len(plays) < MaxPlays
  /\ plays' = Append(plays, row)
  /\ IF row.posteam = "" \/ row.game_id = ""
     THEN UNCHANGED <<teamStatsByKey, log>>
     ELSE
       LET idx == KeyIndex(teamStatsByKey, row.game_id, row.posteam)
           playNo == Len(plays) + 1
           seeded == IF idx = 0
                     THEN EntryOf(RunInit(calcs,
                            buildStatContext(NewEntry(row.game_id, row.posteam),
                                             allowedStats)))
                     ELSE teamStatsByKey[idx]
           entry == EntryOf(RunAccumulate(calcs, row,
                              buildStatContext(seeded, allowedStats)))
       IN  /\ teamStatsByKey' = IF idx = 0 THEN Append(teamStatsByKey, entry)
                                ELSE [teamStatsByKey EXCEPT ![idx] = entry]
           /\ log' = log
                \o (IF idx = 0
                    THEN CallEvents("init", calcs, row.game_id, row.posteam, playNo)
                    ELSE <<>>)
                \o CallEvents("accumulate", calcs, row.game_id, row.posteam, playNo)
  /\ UNCHANGED <<calcs, allowedStats, fi, wpc, metaLookup, trendVars, evalVars, laterVars>>

\* The play loop ends (the input had Len(plays) rows).
EndOfPlays ==
  /\ wpc = "plays"
  /\ wpc' = "finalize"
  /\ fi' = 1
  /\ UNCHANGED <<plays, calcs, allowedStats, teamStatsByKey, log, metaLookup, trendVars,
                 evalVars, laterVars>>

\* One iteration of `for (const entry of teamStatsByKey.values())`.
FinalizeEntry ==
  /\ wpc = "finalize"
  /\ fi <= Len(teamStatsByKey)
  /\ LET entry == teamStatsByKey[fi]
         done == EntryOf(RunFinalize(calcs, buildStatContext(entry, allowedStats)))
     IN  /\ teamStatsByKey' = [teamStatsByKey EXCEPT ![fi] = done]
         /\ log' = log \o CallEvents("finalize", calcs, entry.game_id, entry.team, 0)
  /\ fi' = fi + 1
  /\ UNCHANGED <<plays, calcs, allowedStats, wpc, metaLookup, trendVars, evalVars, laterVars>>

\* return Array.from(teamStatsByKey.values())
ReturnRows ==
  /\ wpc = "finalize"
  /\ fi > Len(teamStatsByKey)
  /\ wpc' = "done"
  /\ UNCHANGED <<plays, calcs, allowedStats, teamStatsByKey, fi, log, metaLookup, trendVars,
                 evalVars, laterVars>>

WeekNext ==
  \/ \E row \in PlayPool : ProcessPlay(row)
  \/ EndOfPlays
  \/ FinalizeEntry
  \/ ReturnRows

SpecWeek == WeekInit /\ [][WeekNext]_vars


\* ------------------------------------------- further calculator lists
\* Lists a caller passes to computeTeamStatsForWeek
ListConfigs ==
  { <<"defense_basic">>,
    <<"offensive_play_count", "defense_basic">>,
    <<"offensive_play_count">>,
    <<"advanced_epa_success">>,
    <<"offensive_play_count", "advanced_epa_success">>,
    <<"advanced_epa_success", "offensive_play_count">>,
    <<"schedule_adjusted">>,
    <<"advanced_epa_success", "schedule_adjusted">>,
    <<"schedule_adjusted", "advanced_epa_success">>,
    <<"offense_efficiency">>,
    <<"defense_efficiency">> }

\* Rows of game g1: A's run, A's converted 3rd-down pass, A's punt, B's
\* intercepted pass and B's successful run against A; A's touchdown pass on
\* 1st down from the 8 in drive 1, and A's touchdown run on 2nd down from the
\* 12 in drive 2, a drive without a 1st-down snap inside the 20.
ListPlayPool ==
  {p \in PlayPool : p = BasePlay \/ p.interception \/ (p.down = Num(3) /\ p.first_down)
                    \/ (p.touchdown /\ p.down = Num(1))}
  \cup {[BasePlay EXCEPT !.play_type = "punt", !.down = Num(4), !.epa = Num(0)],
        [BasePlay EXCEPT !.posteam = "B", !.defteam = "A", !.epa = Num(2),
                         !.success = TRUE, !.fixed_drive = Num(4)],
        [BasePlay EXCEPT !.yardline_100 = Num(12), !.touchdown = TRUE, !.epa = Num(4),
                         !.success = TRUE, !.fixed_drive = Num(2),
                         !.fixed_drive_result = "Touchdown"]}

WeekListInit ==
  /\ plays = <<>>
  /\ calcs \in ListConfigs
  /\ allowedStats = NoAllowList
  /\ teamStatsByKey = <<>>
  /\ fi = 0
  /\ log = <<>>
  /\ wpc = "plays"
  /\ metaLookup = <<>>
  /\ TrendsIdle
  /\ EvalIdle
  /\ LaterIdle

WeekListNext ==
  \/ \E row \in ListPlayPool : ProcessPlay(row)
  \/ EndOfPlays
  \/ FinalizeEntry
  \/ ReturnRows

SpecWeekLists == WeekListInit /\ [][WeekListNext]_vars

\* ------------------------------------------- the default calculator list
\* loadWeekMeta(season, week) over the games of the week's meta file; a raw
\* score is results?.home_score, kept undefined or passed through Number().
scoreOf(raw) ==
  IF raw.t = "undefined" THEN Undefined
  ELSE IF raw.t = "number" THEN Num(raw.v)
  ELSE Num(0)

RECURSIVE loadWeekMeta(_, _)
loadWeekMeta(games, map) ==
  IF games = <<>> THEN map
  ELSE
    LET g == Head(games)
        meta == [home_team |-> g.home_team, away_team |-> g.away_team,
                 home_score |-> scoreOf(g.home_score), away_score |-> scoreOf(g.away_score)]
    IN  loadWeekMeta(Tail(games), IF g.game_id = "" THEN map ELSE (g.game_id :> meta) @@ map)

\* buildCalculators(season, week) without a caller's list: the defaults and
\* one scaffold per schema group.  A schema is [loaded, groups]; effCopy is
\* the offense-efficiency module the build holds.
buildCalculators(schema, effCopy) ==
  <<"offensive_play_count", effCopy, "offense_basic_scaffold",
    "offense_efficiency_scaffold", "results_stats", "results_scaffold">>
  \o (IF schema.loaded THEN [i \in 1..Len(schema.groups) |-> ScaffoldName[schema.groups[i]]]
      ELSE <<>>)

\* loadAllowedStats(): null without a schema, else every key of every group
loadAllowedStats(schema) ==
  IF ~schema.loaded THEN NoAllowList
  ELSE [on |-> TRUE,
        keys |-> UNION {{SchemaGroupTable[schema.groups[i]][k] :
                           k \in 1..Len(SchemaGroupTable[schema.groups[i]])} :
                        i \in 1..Len(schema.groups)}]

\* stats-schema.json: absent, with every group, with two groups
Schemas ==
  { [loaded |-> FALSE, groups |-> <<>>],
    [loaded |-> TRUE, groups |-> <<"offense_basic", "offense_efficiency", "results",
                                   "special_teams", "turnovers_penalties">>],
    [loaded |-> TRUE, groups |-> <<"special_teams", "results">>] }

MetaGameOf(gameId, home, away, homeScore, awayScore) ==
  [game_id |-> gameId, home_team |-> home, away_team |-> away,
   home_score |-> homeScore, away_score |-> awayScore]

\* data/game_meta/<season>/<week>.json: no file; a one-score home win; a
\* blowout and a tie; a margin of exactly 8; a game not played yet (no
\* results, null scores).
WeekMetaFiles ==
  { <<>>,
    <<MetaGameOf("g1", "A", "B", Num(21), Num(17))>>,
    <<MetaGameOf("g1", "A", "B", Num(10), Num(30)), MetaGameOf("g2", "B", "A", Num(20), Num(20))>>,
    <<MetaGameOf("g1", "B", "A", Num(28), Num(20)), MetaGameOf("", "B", "A", Num(1), Num(2))>>,
    <<MetaGameOf("g1", "A", "B", Undefined, Undefined), MetaGameOf("g2", "B", "A", Null, Null)>> }

EfficiencyCopies == {"offense_efficiency", "offense_efficiency_ctx"}

\* The plays of a default week: a run and a converted 3rd down of A, an
\* interception thrown by B, a punt of B in another game.
DefaultPlayPool ==
  {p \in PlayPool : \/ p = BasePlay
                    \/ p.down = Num(3)
                    \/ p.interception
                    \/ p.play_type = "punt"}

WeekDefaultInit ==
  /\ plays = <<>>
  /\ \E schema \in Schemas, effCopy \in EfficiencyCopies :
       /\ calcs = buildCalculators(schema, effCopy)
       /\ allowedStats = loadAllowedStats(schema)
  /\ \E games \in WeekMetaFiles : metaLookup = loadWeekMeta(games, <<>>)
  /\ teamStatsByKey = <<>>
  /\ fi = 0
  /\ log = <<>>
  /\ wpc = "plays"
  /\ TrendsIdle
  /\ EvalIdle
  /\ LaterIdle

WeekDefaultNext ==
  \/ \E row \in DefaultPlayPool : ProcessPlay(row)
  \/ EndOfPlays
  \/ FinalizeEntry
  \/ ReturnRows

SpecWeekDefault == WeekDefaultInit /\ [][WeekDefaultNext]_vars

\* ------------------------------------------- properties of the week engine
Rows == teamStatsByKey

RowKeys == {<<Rows[i].game_id, Rows[i].team>> : i \in 1..Len(Rows)}

\* (game_id, team) pairs that occur in the consumed plays, in either role
ObservedPairs ==
  {<<plays[j].game_id, plays[j].posteam>> :
      j \in {k \in 1..Len(plays) : plays[k].game_id # "" /\ plays[k].posteam # ""}}
  \cup
  {<<plays[j].game_id, plays[j].defteam>> :
      j \in {k \in 1..Len(plays) : plays[k].game_id # "" /\ plays[k].defteam # ""}}

FirstSeen(pair) ==
  CHOOSE j \in 1..Len(plays) :
    /\ plays[j].game_id = pair[1] /\ pair[2] \in {plays[j].posteam, plays[j].defteam}
    /\ \A k \in 1..(j - 1) :
         ~(plays[k].game_id = pair[1] /\ pair[2] \in {plays[k].posteam, plays[k].defteam})

\* C2: the returned rows are exactly one per (game_id, team) pair that
\* occurs in the week's plays as posteam or as defteam, in first-seen order.
C2_OneRowPerObservedPair ==
  wpc = "done" =>
    /\ RowKeys = ObservedPairs
    /\ \A a, b \in 1..Len(Rows) :
         a < b => /\ <<Rows[a].game_id, Rows[a].team>> # <<Rows[b].game_id, Rows[b].team>>
                  /\ <<Rows[a].game_id, Rows[a].team>> \in ObservedPairs
                  /\ <<Rows[b].game_id, Rows[b].team>> \in ObservedPairs
                  /\ FirstSeen(<<Rows[a].game_id, Rows[a].team>>)
                       <= FirstSeen(<<Rows[b].game_id, Rows[b].team>>)

\* Positions of the log that are calls of one kind on one context.
Calls(kind, gameId, team) ==
  {p \in 1..Len(log) : log[p].kind = kind /\ log[p].game_id = gameId /\ log[p].team = team}

CalcIdx(has(_)) == {i \in 1..Len(calcs) : has(calcs[i])}

\* C3: per context, every calculator's init runs exactly once, in list
\* order, before any accumulate on it; accumulate calls follow input order
\* and, within a play, list order; every calculator's finalize runs at most
\* once per context (exactly once when the function returns), in list
\* order, and only after the play loop has ended.
C3_LifecycleOrder ==
  /\ \A r \in 1..Len(Rows) :
       LET g == Rows[r].game_id
           t == Rows[r].team
           inits == Calls("init", g, t)
           accs == Calls("accumulate", g, t)
           fins == Calls("finalize", g, t)
       IN  /\ \A i \in CalcIdx(HasInit) :
                Cardinality({p \in inits : log[p].calc = i}) = 1
           /\ \A p, q \in inits : p < q => log[p].calc < log[q].calc
           /\ \A p \in inits : \A q \in accs : p < q
           /\ \A i \in CalcIdx(HasFinalize) :
                /\ Cardinality({p \in fins : log[p].calc = i}) <= 1
                /\ wpc = "done" => Cardinality({p \in fins : log[p].calc = i}) = 1
           /\ \A p, q \in fins : p < q => log[p].calc < log[q].calc
           /\ \A p \in accs : \A q \in fins : p < q
  /\ \A p, q \in 1..Len(log) :
       (p < q /\ log[p].kind = "accumulate" /\ log[q].kind = "accumulate") =>
          \/ log[p].play < log[q].play
          \/ log[p].play = log[q].play /\ log[p].calc < log[q].calc
  /\ \A j \in 1..Len(plays) :
       (plays[j].game_id # "" /\ plays[j].posteam # "") =>
          \A i \in CalcIdx(HasAccumulate) :
            Cardinality({p \in Calls("accumulate", plays[j].game_id, plays[j].posteam) :
                           log[p].play = j /\ log[p].calc = i}) = 1
  /\ \A p \in 1..Len(log) :
       /\ log[p].kind = "finalize" =>
            /\ wpc \in {"finalize", "done"}
            /\ \A q \in 1..Len(log) : log[q].kind = "accumulate" => q < p
       /\ \E r \in 1..Len(Rows) : Rows[r].game_id = log[p].game_id /\ Rows[r].team = log[p].team

\* Two contexts, one of them fed by two plays, three calculators, all done.
C3_Witness ==
  /\ wpc = "done"
  /\ Len(Rows) = 2
  /\ Len(calcs) >= 3
  /\ \E r \in 1..Len(Rows) :
       Cardinality({log[p].play : p \in Calls("accumulate", Rows[r].game_id, Rows[r].team)}) = 2
  /\ \E p \in 1..Len(log) : log[p].kind = "finalize"
  /\ \E p \in 1..Len(log) : log[p].kind = "init"

\* Rate keys with the key holding their denominator, per calculator.
RateTable ==
  { <<"offense_efficiency", "off_3rd_down_pct", "off_3rd_down_att">>,
    <<"offense_efficiency", "off_red_zone_td_pct", "off_red_zone_trips">>,
    <<"offense_efficiency", "off_4th_down_pct", "off_4th_down_att">>,
    <<"offense_efficiency", "off_3_and_out_rate", "off_drives">>,
    <<"offense_efficiency", "off_points_per_drive", "off_drives">>,
    <<"offense_efficiency_ctx", "off_3rd_down_pct", "off_3rd_down_att">>,
    <<"offense_efficiency_ctx", "off_red_zone_td_pct", "off_red_zone_trips">>,
    <<"advanced_epa_success", "off_epa_per_play", "off_plays">>,
    <<"advanced_epa_success", "off_epa_per_rush", "off_rush_plays">>,
    <<"advanced_epa_success", "off_epa_per_pass", "off_pass_plays">>,
    <<"advanced_epa_success", "off_success_rate", "off_plays">>,
    <<"advanced_epa_success", "def_epa_per_play", "def_plays">>,
    <<"advanced_epa_success", "def_success_rate", "def_plays">>,
    <<"defense_efficiency", "def_3rd_down_pct", "def_3rd_down_att">>,
    <<"defense_efficiency", "def_red_zone_td_pct_allowed", "def_red_zone_trips_allowed">>,
    <<"defense_efficiency", "def_points_per_drive", "def_drives">>,
    <<"situational_leverage", "late_down_epa_off", "_late_down_off_plays">>,
    <<"situational_leverage", "late_down_epa_def", "_late_down_def_plays">>,
    <<"situational_leverage", "two_min_epa_off", "_two_min_off_plays">>,
    <<"situational_leverage", "two_min_epa_def", "_two_min_def_plays">>,
    <<"situational_leverage", "close_game_epa_off", "_close_game_off_plays">>,
    <<"situational_leverage", "close_game_epa_def", "_close_game_def_plays">> }

InList(name) == \E i \in 1..Len(calcs) : calcs[i] = name

\* C6: once a context is finalized, every rate whose denominator is zero is
\* present in its stats and is exactly 0.
C6_ZeroDenominatorYieldsZero ==
  \A r \in 1..Len(Rows) :
    (wpc \in {"finalize", "done"} /\ r < fi) =>
      \A e \in RateTable :
        (InList(e[1]) /\ StatOr0(Rows[r].stats, e[3]) = Zero) =>
           /\ e[2] \in DOMAIN Rows[r].stats
           /\ Rows[r].stats[e[2]] = Zero

\* 1st-down snaps inside the 20 of a game, by the offense / against the defense
RzDrivesFor(gameId, team) ==
  {driveIdOf(plays[j]) :
     j \in {k \in 1..Len(plays) :
              /\ plays[k].game_id = gameId /\ plays[k].posteam = team
              /\ inRedZone(plays[k]) /\ plays[k].down = Num(1)
              /\ driveIdOf(plays[k]).t # "undefined"}}

RzDrivesAgainst(gameId, team) ==
  {driveIdOf(plays[j]) :
     j \in {k \in 1..Len(plays) :
              /\ plays[k].game_id = gameId /\ plays[k].defteam = team
              /\ plays[k].posteam # ""
              /\ inRedZone(plays[k]) /\ plays[k].down = Num(1)
              /\ driveIdOf(plays[k]).t # "undefined"}}

\* C7: in every returned row off_red_zone_trips (def_red_zone_trips_allowed)
\* is the number of distinct drives with a 1st-down snap at yardline <= 20
\* by (against) the row's team.
C7_RedZoneTripsCountDrives ==
  wpc = "done" =>
    \A r \in 1..Len(Rows) :
      /\ (InList("offense_efficiency") \/ InList("offense_efficiency_ctx")) =>
            StatOr0(Rows[r].stats, "off_red_zone_trips")
              = RInt(Cardinality(RzDrivesFor(Rows[r].game_id, Rows[r].team)))
      /\ InList("defense_efficiency") =>
            StatOr0(Rows[r].stats, "def_red_zone_trips_allowed")
              = RInt(Cardinality(RzDrivesAgainst(Rows[r].game_id, Rows[r].team)))

\* C8: with the turnovers/penalties calculator anywhere in the list, every
\* returned row satisfies turnover_margin = takeaways - turnovers_off.
C8_TurnoverMarginIdentity ==
  (wpc = "done" /\ InList("turnovers_penalties")) =>
    \A r \in 1..Len(Rows) :
      /\ {"turnover_margin", "takeaways", "turnovers_off"} \subseteq DOMAIN Rows[r].stats
      /\ Rows[r].stats["turnover_margin"]
           = RSub(Rows[r].stats["takeaways"], Rows[r].stats["turnovers_off"])

\* A returned row with a turnover, produced with defense_efficiency in the list.
C8_Witness ==
  /\ wpc = "done"
  /\ InList("turnovers_penalties")
  /\ InList("defense_efficiency")
  /\ \E r \in 1..Len(Rows) :
       /\ "turnovers_off" \in DOMAIN Rows[r].stats
       /\ RLt(Zero, Rows[r].stats["turnovers_off"])


\* Keys the context is probed with: allowed ones, private ones, and two
\* that no schema group declares.
ProbeKeys ==
  {"off_plays", "turnover_margin", "off_3rd_down_pct", "_late_down_off_plays",
   "_two_min_def_plays", "not_in_schema", "off_plays_per_game"}

ProbeValues == {One, <<-5, 2>>}

\* stats after the write equal stats before it, but for key, which holds value
WrittenTo(before, after, key, value) ==
  /\ DOMAIN after = DOMAIN before \cup {key}
  /\ after[key] = value
  /\ \A k \in DOMAIN before \ {key} : after[k] = before[k]

\* C14: with an allow-list configured, addStat and incrementStat on a key
\* that is neither allowed nor prefixed with '_' leave the stats mapping as
\* it was; on every other key, and on every key when no allow-list is
\* configured, addStat stores the value and incrementStat adds to the
\* current value (0 when absent), nothing else changing.
C14_AllowListGatesWrites ==
  \A i \in 1..Len(teamStatsByKey), key \in ProbeKeys, value \in ProbeValues :
    LET ctx == buildStatContext(teamStatsByKey[i], allowedStats)
        before == ctx.stats
        dropped == /\ allowedStats.on
                   /\ key \notin allowedStats.keys
                   /\ key \notin PrivateKeys
        current == IF key \in DOMAIN before THEN before[key] ELSE Zero
    IN  IF dropped
        THEN /\ addStat(ctx, key, value).stats = before
             /\ incrementStat(ctx, key, value).stats = before
        ELSE /\ WrittenTo(before, addStat(ctx, key, value).stats, key, value)
             /\ WrittenTo(before, incrementStat(ctx, key, value).stats, key,
                          RAdd(current, value))

\* A returned week computed under the schema allow-list whose row holds
\* allowed and private keys: the probes hit present and absent keys of
\* every kind.
C14_Witness ==
  /\ wpc = "done"
  /\ allowedStats.on
  /\ \E i \in 1..Len(teamStatsByKey) :
       /\ "turnover_margin" \in DOMAIN teamStatsByKey[i].stats
       /\ "_late_down_off_plays" \in DOMAIN teamStatsByKey[i].stats
       /\ "not_in_schema" \notin DOMAIN teamStatsByKey[i].stats
       /\ "not_in_schema" \notin allowedStats.keys

\* C15: no row computeTeamStatsForWeek returns (the rows writeWeekOutput
\* serializes) holds a key starting with '_' in its stats: neither a private
\* counter nor the _off_eff_state / _def_eff_state scratch object.
C15_NoPrivateKeyInOutput ==
  wpc = "done" =>
    \A i \in 1..Len(teamStatsByKey) :
      /\ DOMAIN teamStatsByKey[i].stats \cap PrivateKeys = {}
      /\ ~teamStatsByKey[i].off_eff_state.present
      /\ ~teamStatsByKey[i].def_eff_state.present

\* The schema groups the week's calculator list was built from.
DeclaredKeys == allowedStats.keys

\* keys some calculator other than a scaffold may write
CalculatorKeys ==
  {"off_plays", "off_3rd_down_att", "off_3rd_down_conv", "off_3rd_down_pct",
   "off_red_zone_trips", "off_red_zone_td_pct", "points_for", "points_against",
   "point_differential", "one_score_games_played", "one_score_win_pct"}

\* C16: with the default calculator list built from a loaded schema, every
\* row returned holds every key declared in a schema group, 0 for a key no
\* calculator writes, and all rows have the same key set.
C16_SchemaKeysAlwaysPresent ==
  (wpc = "done" /\ allowedStats.on) =>
    /\ \A i \in 1..Len(teamStatsByKey) :
         /\ DeclaredKeys \subseteq DOMAIN teamStatsByKey[i].stats
         /\ \A key \in DeclaredKeys \ CalculatorKeys : teamStatsByKey[i].stats[key] = Zero
    /\ \A i, j \in 1..Len(teamStatsByKey) :
         DOMAIN teamStatsByKey[i].stats = DOMAIN teamStatsByKey[j].stats

\* Two rows of a week under the full schema, one with a game result and a
\* third-down attempt, one without either.
C16_Witness ==
  /\ wpc = "done" /\ allowedStats.on
  /\ "turnover_margin" \in DeclaredKeys
  /\ \E i, j \in 1..Len(teamStatsByKey) :
       /\ teamStatsByKey[i].stats["points_for"] # Zero
       /\ teamStatsByKey[i].stats["off_3rd_down_att"] # Zero
       /\ teamStatsByKey[j].game_id \notin DOMAIN metaLookup
       /\ teamStatsByKey[j].stats["off_3rd_down_pct"] = Zero
       /\ teamStatsByKey[j].stats["punts"] = Zero

\* The row's game has a meta entry with both scores.
HasResult(row) ==
  /\ row.game_id \in DOMAIN metaLookup
  /\ metaLookup[row.game_id].home_score.t = "number"
  /\ metaLookup[row.game_id].away_score.t = "number"

\* C17: the result stats of a row come from the game's meta entry alone,
\* whatever the plays: points_for / points_against are the home and away
\* score (swapped for the away team), point_differential their difference,
\* one_score_games_played is 1 exactly when |point_differential| <= 8, and
\* one_score_win_pct is 1 exactly when that holds and the team won, else 0.
C17_ResultsFromMetaOnly ==
  wpc = "done" =>
    \A i \in 1..Len(teamStatsByKey) :
      LET row == teamStatsByKey[i]
          meta == metaLookup[row.game_id]
          home == row.team = meta.home_team
          for == IF home THEN meta.home_score.v ELSE meta.away_score.v
          against == IF home THEN meta.away_score.v ELSE meta.home_score.v
      IN  HasResult(row) =>
            /\ row.stats["points_for"] = RInt(for)
            /\ row.stats["points_against"] = RInt(against)
            /\ row.stats["point_differential"] = RInt(for - against)
            /\ row.stats["one_score_games_played"]
                 = IF Abs(for - against) <= 8 THEN One ELSE Zero
            /\ row.stats["one_score_win_pct"]
                 = IF Abs(for - against) <= 8 /\ for > against THEN One ELSE Zero

\* The away team's row of a game it lost by exactly 8, and the home team's
\* row of the same game, after a week of several plays.
C17_Witness ==
  /\ wpc = "done"
  /\ Len(plays) >= 2
  /\ \E i, j \in 1..Len(teamStatsByKey) :
       LET row == teamStatsByKey[i]
           other == teamStatsByKey[j]
       IN  /\ HasResult(row)
           /\ row.team = metaLookup[row.game_id].away_team
           /\ row.stats["point_differential"] = RInt(-8)
           /\ row.stats["one_score_games_played"] = One
           /\ row.stats["one_score_win_pct"] = Zero
           /\ other.game_id = row.game_id
           /\ other.team = metaLookup[row.game_id].home_team
           /\ other.stats["one_score_win_pct"] = One

\* ------------------------------------------- 03_build_trends.ts
\* Stat values of derived rows are exact rationals; a JSON value that is not
\* a number (null) is written NotNumber.
NotNumber == <<0, 0>>

\* typeof value === 'number' && !Number.isNaN(value)
IsNumber(value) == value[2] # 0

RECURSIVE averageSums(_, _)
\* games.forEach(...): the sums and counts per key after the given games
averageSums(games, acc) ==
  IF games = <<>> THEN acc
  ELSE
    LET stats == Head(games)
        ks == {k \in DOMAIN stats : IsNumber(stats[k])}
        sums == [k \in ks |-> RAdd(StatOr0(acc.sums, k), stats[k])] @@ acc.sums
        counts == [k \in ks |-> (IF k \in DOMAIN acc.counts THEN acc.counts[k] ELSE 0) + 1]
                    @@ acc.counts
    IN  averageSums(Tail(games), [sums |-> sums, counts |-> counts])

\* Faulty variant: every sum is divided by the number of games.
averageStats_ByGames(games) ==
  LET acc == averageSums(games, [sums |-> NoStats, counts |-> NoStats])
  IN  [k \in DOMAIN acc.sums |-> RDiv(acc.sums[k], RInt(Len(games)))]

averageStats(games) ==
  LET acc == averageSums(games, [sums |-> NoStats, counts |-> NoStats])
  IN  [k \in DOMAIN acc.sums |-> RDiv(acc.sums[k], RInt(acc.counts[k]))]

StatsOf(history) == [i \in 1..Len(history) |-> history[i].stats]

\* Faulty variant: the opponent's history includes the current week.
oppHistoryOf_Through(history, currentWeek) ==
  SelectSeq(history, LAMBDA h : h.week <= currentWeek)

\* Faulty variant: the opponent's whole history so far.
oppHistoryOf_All(history, currentWeek) == history

\* (historyByTeam[opponent] ?? []).filter((h) => h.week < currentWeek)
oppHistoryOf(history, currentWeek) ==
  SelectSeq(history, LAMBDA h : h.week < currentWeek)

\* meta.home_team === team ? meta.away_team : meta.home_team
opponentOf(meta, team) == IF meta.home_team = team THEN meta.away_team ELSE meta.home_team

\* mean(getter) over the opponent averages
meanOver(opponentAverages, getter(_)) ==
  LET n == Len(opponentAverages)
  IN  RDiv(RSumOver(1..n, [i \in 1..n |-> getter(opponentAverages[i])]), RInt(n))

computeOpponentStrength(teamHistory, metaByGameId, team, currentWeek, historyByTeam) ==
  LET oppHistoryFor(g) ==
        LET opponent == opponentOf(metaByGameId[g.gameId], team)
        IN  IF opponent \in DOMAIN historyByTeam
            THEN oppHistoryOf(historyByTeam[opponent], currentWeek)
            ELSE <<>>
      contributes(g) ==
        /\ ~(g.week >= currentWeek)
        /\ g.gameId \in DOMAIN metaByGameId
        /\ opponentOf(metaByGameId[g.gameId], team) # ""
        /\ oppHistoryFor(g) # <<>>
      kept == SelectSeq(teamHistory, contributes)
      opponentAverages == [i \in 1..Len(kept) |-> averageStats(StatsOf(oppHistoryFor(kept[i])))]
      off(st) == StatOr0(st, "off_epa_per_play")
      def(st) == StatOr0(st, "def_epa_per_play")
      win(st) == StatOr0(st, "win_pct")
      combo(st) == RAdd(StatOr0(st, "off_epa_per_play"), StatOr0(st, "def_epa_per_play"))
  IN  IF Len(opponentAverages) = 0
      THEN [avg_opponent_off_epa_per_play |-> Zero, avg_opponent_def_epa_per_play |-> Zero,
            strength_of_schedule_simple |-> Zero, strength_of_schedule_epa |-> Zero]
      ELSE [avg_opponent_off_epa_per_play |-> meanOver(opponentAverages, off),
            avg_opponent_def_epa_per_play |-> meanOver(opponentAverages, def),
            strength_of_schedule_simple |-> meanOver(opponentAverages, win),
            strength_of_schedule_epa |-> meanOver(opponentAverages, combo)]

\* teamHistory.filter((g) => g.week < weekNumber)
priorGamesOf(teamHistory, weekNumber) ==
  SelectSeq(teamHistory, LAMBDA g : g.week < weekNumber)

\* Faulty variant: the first five prior games instead of the last five.
lastFiveGamesOf_First(priorGames) ==
  SubSeq(priorGames, 1, IF Len(priorGames) > 5 THEN 5 ELSE Len(priorGames))

\* priorGames.slice(-5)
lastFiveGamesOf(priorGames) ==
  SubSeq(priorGames, IF Len(priorGames) > 5 THEN Len(priorGames) - 4 ELSE 1, Len(priorGames))

\* The six fields written over both averaged blocks.
OverlayFields ==
  {"avg_opponent_off_epa_per_play", "avg_opponent_def_epa_per_play",
   "strength_of_schedule_simple", "strength_of_schedule_epa",
   "off_epa_per_play_adj", "def_epa_per_play_adj"}

overlay(avg, oppStrength, offAdj, defAdj) ==
  [avg_opponent_off_epa_per_play |-> oppStrength.avg_opponent_off_epa_per_play,
   avg_opponent_def_epa_per_play |-> oppStrength.avg_opponent_def_epa_per_play,
   strength_of_schedule_simple |-> oppStrength.strength_of_schedule_simple,
   strength_of_schedule_epa |-> oppStrength.strength_of_schedule_epa,
   off_epa_per_play_adj |-> offAdj,
   def_epa_per_play_adj |-> defAdj] @@ avg

\* One iteration of derivedRows.forEach: the trend row is pushed, then the
\* row joins its team's history.
rowStep(run, row) ==
  LET hasMeta == row.game_id \in DOMAIN run.metaByGameId
      \* Number(meta?.week ?? row.week)
      weekValue == IF hasMeta /\ IsNum(run.metaByGameId[row.game_id].week)
                   THEN run.metaByGameId[row.game_id].week
                   ELSE row.week
  IN  IF ~IsNum(weekValue) THEN run
      ELSE
        LET weekNumber == weekValue.v
            teamHistory == run.historyByTeam[row.team]
            priorGames == priorGamesOf(teamHistory, weekNumber)
            lastFiveGames == lastFiveGamesOf(priorGames)
            seasonAvg == averageStats(StatsOf(priorGames))
            lastFiveAvg == averageStats(StatsOf(lastFiveGames))
            oppStrength == computeOpponentStrength(priorGames, run.metaByGameId, row.team,
                                                   weekNumber, run.historyByTeam)
            offAdj == RSub(StatOr0(seasonAvg, "off_epa_per_play"),
                           oppStrength.avg_opponent_def_epa_per_play)
            defAdj == RSub(StatOr0(seasonAvg, "def_epa_per_play"),
                           oppStrength.avg_opponent_off_epa_per_play)
            trend == [week |-> row.week, game_id |-> row.game_id, team |-> row.team,
                      games_played |-> Len(priorGames),
                      stats |-> [season |-> overlay(seasonAvg, oppStrength, offAdj, defAdj),
                                 last5 |-> overlay(lastFiveAvg, oppStrength, offAdj, defAdj)]]
            entry == [week |-> weekNumber, stats |-> row.stats, gameId |-> row.game_id]
        IN  [run EXCEPT !.trendsForWeek = Append(@, trend),
                        !.historyByTeam[row.team] = Append(teamHistory, entry)]

RECURSIVE rowsStep(_, _)
rowsStep(run, derivedRows) ==
  IF derivedRows = <<>> THEN run
  ELSE rowsStep(rowStep(run, Head(derivedRows)), Tail(derivedRows))

RECURSIVE loadMetaRows(_, _)
\* metaRows.forEach((row) => { if (row?.game_id) metaByGameId.set(row.game_id, row) })
loadMetaRows(metaByGameId, metaRows) ==
  IF metaRows = <<>> THEN metaByGameId
  ELSE LET row == Head(metaRows)
       IN  loadMetaRows(IF row.game_id # 0 THEN (row.game_id :> row) @@ metaByGameId
                        ELSE metaByGameId,
                        Tail(metaRows))

\* One iteration of weeks.forEach for a week number: nothing happens when the
\* derived tree has no file of that week (it is not listed), the week is
\* skipped when its meta file is missing.
weekStep(run, file) ==
  IF ~file.derived.exists \/ ~file.meta.exists
  THEN [run EXCEPT !.trendsForWeek = <<>>]
  ELSE rowsStep([run EXCEPT !.metaByGameId = loadMetaRows(@, file.meta.rows),
                            !.trendsForWeek = <<>>],
                file.derived.rows)


\* ------------------------------------------- inputs of the trend accumulator
\* Derived stat blocks as 02_compute_stats writes them.  BlockC lacks
\* off_3rd_down_pct (a game without 3rd-down attempts computed with the
\* offense-efficiency calculator alone) and carries a null win_pct.
BlockA ==
  ("off_epa_per_play" :> <<1, 10>>) @@ ("def_epa_per_play" :> <<1, 5>>)
    @@ ("win_pct" :> One) @@ ("off_3rd_down_pct" :> <<1, 2>>)
    @@ ("off_epa_per_play_adj" :> <<1, 10>>)

BlockB ==
  ("off_epa_per_play" :> <<1, 5>>) @@ ("def_epa_per_play" :> <<-1, 10>>)
    @@ ("win_pct" :> Zero) @@ ("off_3rd_down_pct" :> One)
    @@ ("off_epa_per_play_adj" :> <<1, 5>>)

BlockC ==
  ("off_epa_per_play" :> <<3, 10>>) @@ ("def_epa_per_play" :> Zero)
    @@ ("win_pct" :> NotNumber) @@ ("off_epa_per_play_adj" :> <<3, 10>>)

\* Game ids are numbered by the week the game is played in; 0 is no id.
DerivedRowOf(w, team, stats) ==
  [week |-> Num(w), game_id |-> w, team |-> team, stats |-> stats]

MetaRowOf(w, home, away) ==
  [game_id |-> w, week |-> Num(w), home_team |-> home, away_team |-> away]

DerivedFile(rs) == [exists |-> TRUE, rows |-> rs]

NoFile == [exists |-> FALSE, rows |-> <<>>]

\* The week-w files of data/derived_stats/<season> and data/game_meta/<season>
WeekFiles(w) ==
  << \* A hosts B
     [week |-> w,
      derived |-> DerivedFile(<<DerivedRowOf(w, "A", BlockA), DerivedRowOf(w, "B", BlockB)>>),
      meta |-> DerivedFile(<<MetaRowOf(w, "A", "B")>>)],
     \* B hosts A, B's row first
     [week |-> w,
      derived |-> DerivedFile(<<DerivedRowOf(w, "B", BlockA), DerivedRowOf(w, "A", BlockC)>>),
      meta |-> DerivedFile(<<MetaRowOf(w, "B", "A")>>)],
     \* only A has a row, and the meta file does not list the game
     [week |-> w,
      derived |-> DerivedFile(<<DerivedRowOf(w, "A", BlockB)>>),
      meta |-> DerivedFile(<<>>)],
     \* derived rows without a meta file
     [week |-> w,
      derived |-> DerivedFile(<<DerivedRowOf(w, "A", BlockA), DerivedRowOf(w, "B", BlockA)>>),
      meta |-> NoFile],
     \* no derived file: a week without games
     [week |-> w, derived |-> NoFile, meta |-> NoFile] >>

\* Week files of a season in which only team A is followed
LongWeekFiles(w) ==
  << [week |-> w,
      derived |-> DerivedFile(<<DerivedRowOf(w, "A", BlockA)>>),
      meta |-> DerivedFile(<<MetaRowOf(w, "A", "B")>>)],
     [week |-> w,
      derived |-> DerivedFile(<<DerivedRowOf(w, "A", BlockC)>>),
      meta |-> DerivedFile(<<MetaRowOf(w, "B", "A")>>)],
     [week |-> w,
      derived |-> DerivedFile(<<DerivedRowOf(w, "A", BlockB)>>),
      meta |-> NoFile],
     [week |-> w, derived |-> NoFile, meta |-> NoFile] >>

SwapBlock(stats) ==
  IF stats = BlockA THEN BlockC ELSE IF stats = BlockB THEN BlockA ELSE BlockB

\* What the second derived tree holds for a week: the same file, the file
\* with every row's stats changed, the file without its first row, or no file.
Mutations == {"same", "changed", "row_deleted", "deleted"}

Mutate(file, mutation) ==
  IF mutation = "same" \/ ~file.derived.exists THEN file
  ELSE IF mutation = "deleted" THEN [file EXCEPT !.derived = NoFile]
  ELSE IF mutation = "changed"
  THEN [file EXCEPT !.derived.rows =
          [i \in 1..Len(@) |-> [@[i] EXCEPT !.stats = SwapBlock(@)]]]
  ELSE [file EXCEPT !.derived.rows = IF @ = <<>> THEN @ ELSE Tail(@)]

\* ------------------------------------------- buildSeasonTrends
TrendsStart(last) ==
  /\ twk = 0 /\ lastWeek = last /\ season1 = <<>> /\ season2 = <<>>
  /\ run1 = NoRun /\ run2 = NoRun /\ tpc = "weeks" /\ weeks = <<>>
  /\ WeekIdle
  /\ EvalIdle
  /\ LaterIdle

TrendsInit == TrendsStart(MaxWeek)

TrendsLongInit == TrendsStart(MaxLongWeek)

\* One iteration of weeks.forEach in both runs, for the next week number.
WeekIteration(file, mutation) ==
  /\ tpc = "weeks"
  /\ twk < lastWeek
  /\ twk' = twk + 1
  /\ season1' = Append(season1, file)
  /\ season2' = Append(season2, Mutate(file, mutation))
  /\ run1' = weekStep(run1, file)
  /\ run2' = weekStep(run2, Mutate(file, mutation))
  /\ UNCHANGED <<lastWeek, tpc, weeks, weekVars, evalVars, laterVars>>

ProcessWeek(choice, mutation) == WeekIteration(WeekFiles(twk + 1)[choice], mutation)

ProcessLongWeek(choice) == WeekIteration(LongWeekFiles(twk + 1)[choice], "same")

\* weeks.forEach has visited every file.
EndOfSeason ==
  /\ tpc = "weeks"
  /\ tpc' = "done"
  /\ UNCHANGED <<twk, lastWeek, season1, season2, run1, run2, weeks, weekVars, evalVars,
                 laterVars>>

TrendsNext ==
  \/ \E choice \in DOMAIN WeekFiles(1), mutation \in Mutations : ProcessWeek(choice, mutation)
  \/ EndOfSeason

SpecTrends == TrendsInit /\ [][TrendsNext]_vars

TrendsLongNext ==
  \/ \E choice \in DOMAIN LongWeekFiles(1) : ProcessLongWeek(choice)
  \/ EndOfSeason

SpecTrendsLong == TrendsLongInit /\ [][TrendsLongNext]_vars


\* ------------------------------------------- properties of the trend accumulator
\* Positions <<week, index>> of a team's derived rows in the week files
\* before week w of a derived tree.
RowsBefore(season, team, w) ==
  {p \in UNION {{<<v, i>> : i \in 1..Len(season[v].derived.rows)} : v \in 1..(w - 1)} :
     season[p[1]].derived.rows[p[2]].team = team}

\* Those of them that lie in a week with a game-meta file.
ProcessedRowsBefore(season, team, w) ==
  {p \in RowsBefore(season, team, w) : season[p[1]].meta.exists}

InputStats(season, p) == season[p[1]].derived.rows[p[2]].stats

\* The rows among P that carry field k as a number.
Carriers(season, P, k) ==
  {p \in P : k \in DOMAIN InputStats(season, p) /\ IsNumber(InputStats(season, p)[k])}

MeanOf(season, P, k) ==
  LET C == Carriers(season, P, k)
  IN  RDiv(RSumOver(C, [p \in C |-> InputStats(season, p)[k]]), RInt(Cardinality(C)))

FieldsOf(season, P) == UNION {DOMAIN InputStats(season, p) : p \in P}

\* Block b holds, for every field outside the overlay, the mean over the
\* rows of P that carry the field, and holds no other field.
IsRawMeanOf(b, season, P) ==
  /\ \A k \in DOMAIN b \ OverlayFields :
       /\ Carriers(season, P, k) # {}
       /\ b[k] = MeanOf(season, P, k)
  /\ \A k \in FieldsOf(season, P) \ OverlayFields :
       Carriers(season, P, k) # {} => k \in DOMAIN b

SameTrend(a, b) ==
  /\ a.games_played = b.games_played
  /\ a.stats.season = b.stats.season
  /\ a.stats.last5 = b.stats.last5

AgreeBefore(w) == \A v \in 1..(w - 1) : season1[v] = season2[v]

\* C1: when two derived trees agree on every week before W, the trend rows
\* the two runs emit at week W for the same team and game have the same
\* games_played, season block and last5 block, whatever the trees hold at
\* week W and later.
C1_NoFutureLeakage ==
  (twk >= 1 /\ AgreeBefore(twk)) =>
    \A i \in 1..Len(run1.trendsForWeek), j \in 1..Len(run2.trendsForWeek) :
      (/\ run1.trendsForWeek[i].team = run2.trendsForWeek[j].team
       /\ run1.trendsForWeek[i].game_id = run2.trendsForWeek[j].game_id)
        => SameTrend(run1.trendsForWeek[i], run2.trendsForWeek[j])

\* Week W differs between the trees, earlier weeks agree, and both runs emit
\* a row for a team with a prior game and a non-zero opponent adjustment.
C1_Witness ==
  /\ twk >= 2
  /\ AgreeBefore(twk)
  /\ season1[twk] # season2[twk]
  /\ \E i \in 1..Len(run1.trendsForWeek), j \in 1..Len(run2.trendsForWeek) :
       /\ run1.trendsForWeek[i].team = run2.trendsForWeek[j].team
       /\ run1.trendsForWeek[i].games_played >= 1
       /\ run1.trendsForWeek[i].stats.season["avg_opponent_off_epa_per_play"] # Zero

\* C4 as stated: games_played is the number of the team's derived rows
\* before week W, and every field of the season block that those rows carry
\* is the mean of the field over them.
C4_SeasonIsMeanOfAllPriorRows ==
  \A i \in 1..Len(run1.trendsForWeek) :
    LET tr == run1.trendsForWeek[i]
        P == RowsBefore(season1, tr.team, twk)
    IN  /\ tr.games_played = Cardinality(P)
        /\ \A k \in DOMAIN tr.stats.season :
             Carriers(season1, P, k) # {} => tr.stats.season[k] = MeanOf(season1, P, k)

\* C4, amended: games_played is the number of the team's derived rows in
\* weeks before W that have a game-meta file, and every field of the season
\* block outside the six overlay fields is the mean of the field over those
\* of these rows that carry it as a number.
C4_SeasonIsMeanOfProcessedRows ==
  \A i \in 1..Len(run1.trendsForWeek) :
    LET tr == run1.trendsForWeek[i]
        P == ProcessedRowsBefore(season1, tr.team, twk)
    IN  /\ tr.games_played = Cardinality(P)
        /\ IsRawMeanOf(tr.stats.season, season1, P)

\* A trend row of a team that has a prior game, a derived row in a week
\* without meta file, and an adjusted EPA that is not the mean of the
\* rows' field of that name.
C4_Witness ==
  \E i \in 1..Len(run1.trendsForWeek) :
    LET tr == run1.trendsForWeek[i]
        P == ProcessedRowsBefore(season1, tr.team, twk)
    IN  /\ tr.games_played >= 1
        /\ P # RowsBefore(season1, tr.team, twk)
        /\ tr.stats.season["off_epa_per_play_adj"] # MeanOf(season1, P, "off_epa_per_play_adj")

\* The (at most five) prior games with the largest week numbers.
MostRecentFive(P) == {p \in P : Cardinality({q \in P : q[1] > p[1]}) < 5}

\* C5: for every raw stat field the last5 block holds the mean over the at
\* most five prior games (the team's rows the accumulator has consumed) with
\* the largest week numbers below W; with five or fewer prior games it
\* agrees with the season block on every raw stat field.
C5_LastFiveIsMeanOfMostRecent ==
  \A i \in 1..Len(run1.trendsForWeek) :
    LET tr == run1.trendsForWeek[i]
        P == ProcessedRowsBefore(season1, tr.team, twk)
    IN  /\ IsRawMeanOf(tr.stats.last5, season1, MostRecentFive(P))
        /\ Cardinality(P) <= 5 =>
             /\ DOMAIN tr.stats.last5 = DOMAIN tr.stats.season
             /\ \A k \in DOMAIN tr.stats.last5 \ OverlayFields :
                  tr.stats.last5[k] = tr.stats.season[k]

\* A team with more than five prior games whose last5 block differs from
\* its season block.
C5_Witness ==
  \E i \in 1..Len(run1.trendsForWeek) :
    LET tr == run1.trendsForWeek[i]
    IN  /\ tr.games_played >= 6
        /\ tr.stats.last5["off_epa_per_play"] # tr.stats.season["off_epa_per_play"]


\* ------------------------------------------- 08_evaluate_margin_model.ts
\* Margins and spreads are exact rationals, NaN is NotNumber.  A raw JSON
\* value of a meta file is tagged with its type.
JNum(r) == [t |-> "number", v |-> r]

JNull == [t |-> "null", v |-> Zero]

JUndefined == [t |-> "undefined", v |-> Zero]

\* Number(value): a number is itself, null is 0, undefined is NaN
NumberOf(value) ==
  IF value.t = "number" THEN value.v
  ELSE IF value.t = "null" THEN Zero
  ELSE NotNumber

BUCKET_NAMES ==
  <<"favorite_predicted_cover", "underdog_predicted_cover", "favorite_is_home",
    "favorite_is_away", "thursday", "monday", "favorite_blowout", "upset",
    "within_3_of_vegas", "spread_0_5", "spread_1_5", "spread_2_5", "spread_3_5",
    "spread_4_5", "spread_5_5", "spread_6_5", "spread_7_5", "spread_8_5", "spread_9_5",
    "spread_10_5_plus">>

RECURSIVE loadMeta(_, _)
\* games.forEach over the games of every meta file, in order
loadMeta(games, map) ==
  IF games = <<>> THEN map
  ELSE
    LET game == Head(games)
        entry == [spread_line |-> NumberOf(game.spread_line), weekday |-> game.weekday,
                  home_team |-> game.home_team, away_team |-> game.away_team]
    IN  loadMeta(Tail(games),
                 IF game.game_id = "" THEN map ELSE (game.game_id :> entry) @@ map)

initBuckets(names) ==
  [name \in {names[i] : i \in 1..Len(names)} |-> [correct |-> 0, total |-> 0]]

bumpBucket(bs, name, isCorrect) ==
  IF name \notin DOMAIN bs THEN bs
  ELSE [bs EXCEPT ![name] = [total |-> @.total + 1,
                             correct |-> IF isCorrect THEN @.correct + 1 ELSE @.correct]]

\* `spread_${(Math.floor(abs) + 0.5).toFixed(1).replace('.', '_')}` for abs < 10.5
SpreadLabels ==
  <<"spread_0_5", "spread_1_5", "spread_2_5", "spread_3_5", "spread_4_5", "spread_5_5",
    "spread_6_5", "spread_7_5", "spread_8_5", "spread_9_5", "spread_10_5">>

spreadBucketName(spread) ==
  LET abs == RAbs(spread)
  IN  IF RLe(<<21, 2>>, abs) THEN "spread_10_5_plus"
      ELSE SpreadLabels[(abs[1] \div abs[2]) + 1]

\* meta.weekday?.toLowerCase?.() ?? ''
toLowerCase(weekday) ==
  IF weekday = "Thursday" THEN "thursday"
  ELSE IF weekday = "Monday" THEN "monday"
  ELSE IF weekday = "Sunday" THEN "sunday"
  ELSE weekday

\* Faulty variant: a zero difference no longer counts as correct.
isCorrectOf_Strict(predictedDiff, actualDiff) ==
  RLt(Zero, RMul(predictedDiff, actualDiff))

\* predictedDiff === 0 || actualDiff === 0 ? true : predictedDiff * actualDiff >= 0
isCorrectOf(predictedDiff, actualDiff) ==
  IF predictedDiff = Zero \/ actualDiff = Zero THEN TRUE
  ELSE RLe(Zero, RMul(predictedDiff, actualDiff))

\* The bucket names one scored row bumps, in call order.
bucketsOfRow(row, meta) ==
  LET spread == meta.spread_line
      predictedDiff == RSub(row.predicted_margin, spread)
      favoriteIsHome == RLt(Zero, spread)
      favoriteMargin == IF favoriteIsHome THEN row.actual_margin
                        ELSE RNeg(row.actual_margin)
      predictedFavCover == RLe(Zero, predictedDiff)
      weekday == toLowerCase(meta.weekday)
  IN     <<IF predictedFavCover THEN "favorite_predicted_cover"
           ELSE "underdog_predicted_cover">>
      \o <<IF favoriteIsHome THEN "favorite_is_home" ELSE "favorite_is_away">>
      \o (IF weekday = "thursday" THEN <<"thursday">> ELSE <<>>)
      \o (IF weekday = "monday" THEN <<"monday">> ELSE <<>>)
      \o (IF RLt(RInt(7), favoriteMargin) THEN <<"favorite_blowout">> ELSE <<>>)
      \o (IF RLt(favoriteMargin, RInt(-3)) THEN <<"upset">> ELSE <<>>)
      \o (IF RLe(RAbs(RSub(row.actual_margin, spread)), RInt(3))
          THEN <<"within_3_of_vegas">> ELSE <<>>)
      \o <<spreadBucketName(spread)>>

RECURSIVE bumpAll(_, _, _)
bumpAll(bs, names, isCorrect) ==
  IF names = <<>> THEN bs
  ELSE bumpAll(bumpBucket(bs, Head(names), isCorrect), Tail(names), isCorrect)

\* rows.reduce((acc, r) => acc + f(r), 0)
reduceSum(rs, f(_)) == RSumOver(1..Len(rs), [i \in 1..Len(rs) |-> f(rs[i])])

\* Lines 142-158.  rmse and baseline_rmse are kept as their squares
\* (the mean squared error), which are rational.
globalMetrics(rs) ==
  LET n == RInt(Len(rs))
      actual(r) == r.actual_margin
      meanActual == RDiv(reduceSum(rs, actual), n)
      err(r) == RSub(r.predicted_margin, r.actual_margin)
      absErr(r) == RAbs(err(r))
      sqErr(r) == RMul(err(r), err(r))
      baseErr(r) == RSub(meanActual, r.actual_margin)
      absBaseErr(r) == RAbs(baseErr(r))
      sqBaseErr(r) == RMul(baseErr(r), baseErr(r))
      ssRes == reduceSum(rs, sqErr)
      ssTot == reduceSum(rs, sqBaseErr)
  IN  [samples |-> Len(rs),
       mean_actual |-> meanActual,
       mae |-> RDiv(reduceSum(rs, absErr), n),
       rmse_squared |-> RDiv(reduceSum(rs, sqErr), n),
       bias |-> RDiv(reduceSum(rs, err), n),
       baseline_mae |-> RDiv(reduceSum(rs, absBaseErr), n),
       baseline_rmse_squared |-> RDiv(reduceSum(rs, sqBaseErr), n),
       r2 |-> IF ssTot = Zero THEN NotNumber ELSE RSub(One, RDiv(ssRes, ssTot))]

\* ------------------------------------------- inputs of the evaluation
ResultRow(gameId, predicted, actual) ==
  [game_id |-> gameId, predicted_margin |-> predicted, actual_margin |-> actual]

\* Rows of predictions_with_outcomes.json after loadResults' Number() calls.
RowPool ==
  { ResultRow("g1", RInt(3), RInt(3)),
    ResultRow("g1", RInt(10), RInt(-2)),
    ResultRow("g2", RInt(-4), RInt(-10)),
    ResultRow("g3", RInt(1), RInt(2)),
    ResultRow("g1", <<5, 2>>, RInt(14)) }

MetaGame(gameId, spread, weekday) ==
  [game_id |-> gameId, spread_line |-> spread, weekday |-> weekday,
   home_team |-> "A", away_team |-> "B"]

\* Contents of data/game_meta/<season>: no game carries the id g3.
MetaPool ==
  { <<MetaGame("g1", JNum(RInt(3)), "Thursday"), MetaGame("g2", JNum(RInt(-7)), "Monday")>>,
    <<MetaGame("g1", JNum(RInt(10)), "Sunday")>>,
    <<MetaGame("g1", JUndefined, "Sunday"), MetaGame("g2", JNum(RInt(11)), "")>>,
    <<MetaGame("g1", JNull, "monday"), MetaGame("g2", JNum(RInt(-3)), "Sunday")>>,
    <<>>,
    <<MetaGame("g1", JNum(Zero), "Sunday")>>,
    <<MetaGame("g1", JNum(<<5, 2>>), ""), MetaGame("", JNum(RInt(1)), "Sunday"),
      MetaGame("g2", JNum(RInt(3)), "thursday")>> }

\* ------------------------------------------- evaluateDummyModel
EvalInit ==
  /\ rows = <<>> /\ metaByGame = <<>> /\ ei = 0 /\ correct = 0
  /\ buckets = <<>> /\ visited = <<>> /\ metrics = NoMetrics /\ epc = "start"
  /\ WeekIdle
  /\ TrendsIdle
  /\ LaterIdle

\* loadResults() returns the rows of the results file.
LoadResults(rs) ==
  /\ epc = "start"
  /\ rows' = rs
  /\ epc' = "loaded"
  /\ UNCHANGED <<metaByGame, ei, correct, buckets, visited, metrics, weekVars, trendVars, laterVars>>

\* loadResults() throws: the results file does not exist.
ResultsMissing ==
  /\ epc = "start"
  /\ epc' = "no_results_file"
  /\ UNCHANGED <<rows, metaByGame, ei, correct, buckets, visited, metrics,
                 weekVars, trendVars, laterVars>>

\* computeMetrics throws 'No rows to evaluate.'
NoRows ==
  /\ epc = "loaded"
  /\ Len(rows) = 0
  /\ epc' = "no_rows"
  /\ UNCHANGED <<rows, metaByGame, ei, correct, buckets, visited, metrics,
                 weekVars, trendVars, laterVars>>

\* computeMetrics up to the start of rows.forEach (lines 137-158).
StartMetrics(games) ==
  /\ epc = "loaded"
  /\ Len(rows) > 0
  /\ metaByGame' = loadMeta(games, <<>>)
  /\ buckets' = initBuckets(BUCKET_NAMES)
  /\ correct' = 0
  /\ metrics' = globalMetrics(rows)
  /\ ei' = 1
  /\ epc' = "rows"
  /\ UNCHANGED <<rows, visited, weekVars, trendVars, laterVars>>

\* One iteration of rows.forEach (lines 160-189).
ScoreRow ==
  /\ epc = "rows"
  /\ ei <= Len(rows)
  /\ LET row == rows[ei]
         hasMeta == row.game_id \in DOMAIN metaByGame
     IN  IF ~hasMeta \/ ~IsNumber(metaByGame[row.game_id].spread_line)
         THEN /\ visited' = Append(visited, [scored |-> FALSE, isCorrect |-> FALSE,
                                             bumped |-> <<>>])
              /\ UNCHANGED <<correct, buckets>>
         ELSE
           LET meta == metaByGame[row.game_id]
               predictedDiff == RSub(row.predicted_margin, meta.spread_line)
               actualDiff == RSub(row.actual_margin, meta.spread_line)
               isCorrect == isCorrectOf(predictedDiff, actualDiff)
               names == bucketsOfRow(row, meta)
           IN  /\ correct' = IF isCorrect THEN correct + 1 ELSE correct
               /\ buckets' = bumpAll(buckets, names, isCorrect)
               /\ visited' = Append(visited, [scored |-> TRUE, isCorrect |-> isCorrect,
                                               bumped |-> names])
  /\ ei' = ei + 1
  /\ UNCHANGED <<rows, metaByGame, metrics, epc, weekVars, trendVars, laterVars>>

\* Lines 191-206: accuracy and the returned record.
FinishMetrics ==
  /\ epc = "rows"
  /\ ei > Len(rows)
  /\ LET total == Len(rows)
         accuracy == IF total = 0 THEN NotNumber ELSE RDiv(RInt(correct), RInt(total))
     IN  metrics' = [correct |-> correct, accuracy |-> accuracy, buckets |-> buckets]
                      @@ metrics
  /\ epc' = "done"
  /\ UNCHANGED <<rows, metaByGame, ei, correct, buckets, visited, weekVars, trendVars, laterVars>>

EvalNext ==
  \/ \E rs \in SeqsUpTo(RowPool, MaxRows) : LoadResults(rs)
  \/ ResultsMissing
  \/ NoRows
  \/ \E games \in MetaPool : StartMetrics(games)
  \/ ScoreRow
  \/ FinishMetrics

SpecEval == EvalInit /\ [][EvalNext]_vars

\* ------------------------------------------- properties of the evaluation
Sign(x) == IF x[1] > 0 THEN 1 ELSE IF x[1] < 0 THEN -1 ELSE 0

SpreadOf(i) == metaByGame[rows[i].game_id].spread_line

\* C9: a visited row with a resolvable spread is marked correct exactly when
\* (predicted_margin - spread) and (actual_margin - spread) have the same
\* sign or at least one of them is zero.
C9_CoverCorrectness ==
  \A i \in 1..Len(visited) :
    visited[i].scored =>
      LET p == Sign(RSub(rows[i].predicted_margin, SpreadOf(i)))
          a == Sign(RSub(rows[i].actual_margin, SpreadOf(i)))
      IN  visited[i].isCorrect <=> (p = a \/ p = 0 \/ a = 0)

\* Rows scored both ways: both differences zero (correct), and differences
\* of opposite sign (not correct).
C9_Witness ==
  /\ epc = "done"
  /\ \E i \in 1..Len(visited) :
       /\ visited[i].scored /\ visited[i].isCorrect
       /\ rows[i].predicted_margin = SpreadOf(i) /\ rows[i].actual_margin = SpreadOf(i)
  /\ \E i \in 1..Len(visited) :
       /\ visited[i].scored /\ ~visited[i].isCorrect
       /\ Sign(RSub(rows[i].predicted_margin, SpreadOf(i))) = 1
       /\ Sign(RSub(rows[i].actual_margin, SpreadOf(i))) = -1

\* Rows whose game has a usable spread line.
Scorable == {i \in 1..Len(rows) :
               /\ rows[i].game_id \in DOMAIN metaByGame
               /\ IsNumber(metaByGame[rows[i].game_id].spread_line)}

\* C10: rows without a usable spread add nothing to the correct count, the
\* accuracy denominator or any bucket, and are counted in samples and the
\* error metrics: accuracy is correct / (number of rows with a spread).
C10_UnscoredRowsOutsideAccuracy ==
  epc = "done" =>
    /\ metrics.samples = Len(rows)
    /\ metrics.mae = globalMetrics(rows).mae
    /\ metrics.correct = Cardinality({i \in Scorable : visited[i].isCorrect})
    /\ \A name \in DOMAIN metrics.buckets :
         metrics.buckets[name].total
           = Cardinality({i \in Scorable :
                            \E j \in 1..Len(visited[i].bumped) : visited[i].bumped[j] = name})
    /\ Scorable # {} =>
         metrics.accuracy = RDiv(RInt(metrics.correct), RInt(Cardinality(Scorable)))

\* The eleven spread-magnitude buckets.
SpreadBucketNames ==
  {SpreadLabels[k] : k \in 1..10} \cup {"spread_10_5_plus"}

\* The bucket of a spread by magnitude: spread_k_5 for |spread| in [k, k+1),
\* k = 0..9, the catch-all above.
SpreadBucketOf(spread) ==
  LET abs == RAbs(spread)
      k == abs[1] \div abs[2]
  IN  IF k <= 9 THEN SpreadLabels[k + 1] ELSE "spread_10_5_plus"

\* The calls bumpBucket(buckets, name, _) of row i that found a bucket.
CountedIn(i) ==
  {name \in DOMAIN buckets :
     \E j \in 1..Len(visited[i].bumped) : visited[i].bumped[j] = name}

RECURSIVE NatSumOver(_, _)
NatSumOver(S, f) ==
  IF S = {} THEN 0
  ELSE LET x == CHOOSE y \in S : TRUE IN f[x] + NatSumOver(S \ {x}, f)

\* C11: every scored row (one with a resolvable spread) is counted in exactly
\* one of the eleven spread-magnitude buckets, the one of its |spread|, and
\* the totals of the eleven spread buckets sum to the number of scored rows.
C11_SpreadBucketsPartitionScoredRows ==
  epc = "done" =>
    /\ \A i \in Scorable :
         CountedIn(i) \cap SpreadBucketNames = {SpreadBucketOf(SpreadOf(i))}
    /\ NatSumOver(SpreadBucketNames, [name \in SpreadBucketNames |-> metrics.buckets[name].total])
         = Cardinality(Scorable)

\* ------------------------------------------- 04_collate_data.ts
\* A spread_line of a meta row is a tagged JSON value; a value tagged "text"
\* is a string that Number() cannot parse.
JText == [t |-> "text", v |-> Zero]

AllStages == <<weekVars, trendVars, evalVars>>

ExceptCollate == <<AllStages, historyVars, testVars, pipeVars>>

\* determineFavorite(meta): NoFavorite stands for null
NoFavorite == [found |-> FALSE, favorite |-> "", underdog |-> ""]

determineFavorite(meta) ==
  LET spread == NumberOf(meta.spread_line)
      home == meta.home_team
      away == meta.away_team
  IN  IF home = "" \/ away = "" \/ ~IsNumber(spread) THEN NoFavorite
      ELSE IF RLt(Zero, spread) THEN [found |-> TRUE, favorite |-> home, underdog |-> away]
      ELSE IF RLt(spread, Zero) THEN [found |-> TRUE, favorite |-> away, underdog |-> home]
      ELSE [found |-> TRUE, favorite |-> home, underdog |-> away]

\* Map.set on a map kept in insertion order: a known key keeps its place.
MapSet(map, key, value) ==
  IF \E i \in 1..Len(map) : map[i].key = key
  THEN [i \in 1..Len(map) |-> IF map[i].key = key THEN [key |-> key, value |-> value]
                               ELSE map[i]]
  ELSE Append(map, [key |-> key, value |-> value])

RECURSIVE metaByGameIdOf(_, _)
\* mergeRows lines 58-63
metaByGameIdOf(rs, map) ==
  IF rs = <<>> THEN map
  ELSE metaByGameIdOf(Tail(rs), IF Head(rs).game_id # ""
                                THEN MapSet(map, Head(rs).game_id, Head(rs)) ELSE map)

RECURSIVE derivedByGameTeamOf(_, _)
\* mergeRows lines 65-70
derivedByGameTeamOf(rs, map) ==
  IF rs = <<>> THEN map
  ELSE derivedByGameTeamOf(Tail(rs),
         IF Head(rs).game_id # "" /\ Head(rs).team # ""
         THEN (<<Head(rs).game_id, Head(rs).team>> :> Head(rs)) @@ map ELSE map)

\* the structured record of lines 86-125, without the copied venue fields
structured(gameId, meta, favoriteRow, underdogRow) ==
  [game_id |-> gameId, home_team |-> meta.home_team, away_team |-> meta.away_team,
   favorite |-> favoriteRow.team, underdog |-> underdogRow.team,
   spread_line |-> meta.spread_line,
   favorite_stats |-> favoriteRow.stats, underdog_stats |-> underdogRow.stats]

\* ------------------------------------------- inputs of the collation
CollateMeta(gameId, home, away, spread) ==
  [game_id |-> gameId, home_team |-> home, away_team |-> away, spread_line |-> spread]

MetaRowPool ==
  { CollateMeta("g1", "A", "B", JNum(RInt(3))),
    CollateMeta("g1", "A", "B", JNum(<<-5, 2>>)),
    CollateMeta("g1", "A", "B", JNum(Zero)),
    CollateMeta("g1", "A", "B", JNull),
    CollateMeta("g1", "A", "B", JUndefined),
    CollateMeta("g1", "A", "B", JText),
    CollateMeta("g1", "", "B", JNum(RInt(3))),
    CollateMeta("g2", "B", "A", JNum(RInt(-3))),
    CollateMeta("g2", "B", "", JNum(RInt(1))),
    CollateMeta("", "A", "B", JNum(RInt(1))) }

CollateDerived(gameId, team) == [game_id |-> gameId, team |-> team, stats |-> <<gameId, team>>]

DerivedRowPool ==
  { <<CollateDerived("g1", "A"), CollateDerived("g1", "B"),
      CollateDerived("g2", "A"), CollateDerived("g2", "B")>>,
    <<CollateDerived("g1", "B"), CollateDerived("g2", "A"), CollateDerived("g2", "B")>>,
    <<CollateDerived("g1", "A"), CollateDerived("g1", "B"), CollateDerived("", "A")>>,
    <<>> }

MaxMetaRows == 2

\* ------------------------------------------- mergeRows
CollateInit ==
  /\ cDerived \in DerivedRowPool
  /\ cMeta \in SeqsUpTo(MetaRowPool, MaxMetaRows)
  /\ mergeMeta = <<>> /\ mergeDerived = <<>> /\ mi = 0 /\ merged = <<>> /\ mpc = "start"
  /\ WeekIdle
  /\ TrendsIdle
  /\ EvalIdle
  /\ HistoryIdle
  /\ TestIdle
  /\ PipeIdle

\* lines 58-70: both lookup maps are built
BuildMaps ==
  /\ mpc = "start"
  /\ mergeMeta' = metaByGameIdOf(cMeta, <<>>)
  /\ mergeDerived' = derivedByGameTeamOf(cDerived, <<>>)
  /\ mi' = 1
  /\ mpc' = "games"
  /\ UNCHANGED <<cDerived, cMeta, merged, ExceptCollate>>

\* one iteration of metaByGameId.forEach (lines 73-128)
MergeGame ==
  /\ mpc = "games"
  /\ mi <= Len(mergeMeta)
  /\ LET gameId == mergeMeta[mi].key
         meta == mergeMeta[mi].value
         fav == determineFavorite(meta)
     IN  IF ~fav.found THEN UNCHANGED merged
         ELSE IF <<gameId, fav.favorite>> \notin DOMAIN mergeDerived
                 \/ <<gameId, fav.underdog>> \notin DOMAIN mergeDerived
              THEN UNCHANGED merged
         ELSE merged' = Append(merged,
                          structured(gameId, meta, mergeDerived[<<gameId, fav.favorite>>],
                                     mergeDerived[<<gameId, fav.underdog>>]))
  /\ mi' = mi + 1
  /\ UNCHANGED <<cDerived, cMeta, mergeMeta, mergeDerived, mpc, ExceptCollate>>

\* line 130: return merged
ReturnMerged ==
  /\ mpc = "games"
  /\ mi > Len(mergeMeta)
  /\ mpc' = "done"
  /\ UNCHANGED <<cDerived, cMeta, mergeMeta, mergeDerived, mi, merged, ExceptCollate>>

CollateNext ==
  \/ BuildMaps
  \/ MergeGame
  \/ ReturnMerged

SpecCollate == CollateInit /\ [][CollateNext]_vars

\* ------------------------------------------- properties of the collation
MergedOf(gameId) == {j \in 1..Len(merged) : merged[j].game_id = gameId}

\* the spread_line of a meta row is a JSON number
NumericSpread(meta) == meta.spread_line.t = "number"

\* C12: the favorite and underdog of a matchup row follow the sign of the
\* spread (positive: home is the favorite; negative: away is the favorite;
\* exactly zero: home is the favorite), and a game whose meta row lacks a
\* team code or has a non-numeric spread has no matchup row.
C12_FavoriteFromSpreadSign ==
  mpc = "done" =>
    \A i \in 1..Len(mergeMeta) :
      LET meta == mergeMeta[i].value
          spread == meta.spread_line.v
      IN  /\ (meta.home_team = "" \/ meta.away_team = "" \/ ~NumericSpread(meta))
               => MergedOf(mergeMeta[i].key) = {}
          /\ \A j \in MergedOf(mergeMeta[i].key) :
               /\ RLt(Zero, spread) =>
                    merged[j].favorite = meta.home_team /\ merged[j].underdog = meta.away_team
               /\ RLt(spread, Zero) =>
                    merged[j].favorite = meta.away_team /\ merged[j].underdog = meta.home_team
               /\ spread = Zero =>
                    merged[j].favorite = meta.home_team /\ merged[j].underdog = meta.away_team

\* ------------------------------------------- persistHistory
\* A file is [exists, lines]; a line is a record, never split or joined.
MaxRuns == 3

ExceptHistory == <<AllStages, collateVars, testVars, pipeVars>>

\* Faulty variant: the file is rewritten with the new line only.
appendFileSync_Truncate(file, line) == [exists |-> TRUE, lines |-> <<line>>]

\* fs.appendFileSync(path, line): creates the file when it is missing
appendFileSync(file, line) == [exists |-> TRUE, lines |-> Append(file.lines, line)]

\* fs.writeFileSync(path, lines): replaces the content
writeFileSync(file, lines) == [exists |-> TRUE, lines |-> lines]

csvHeader == [kind |-> "header"]

csvRowOf(record) == [kind |-> "row", run_id |-> record.run_id, samples |-> record.samples]

\* lines 297-301
persistCsv(file, record) ==
  IF ~file.exists THEN writeFileSync(file, <<csvHeader, csvRowOf(record)>>)
  ELSE appendFileSync(file, csvRowOf(record))

\* The record of a run: DEMO_RUN_ID may tag several runs alike.
HistoryRecords == [run_id : {"r1", "r2"}, samples : {1, 2}]

\* The history directory before the first run of the behaviour.
HistoryStarts ==
  [empty |-> <<NoSuchFile, NoSuchFile>>,
   both |-> <<[exists |-> TRUE, lines |-> <<[run_id |-> "r0", samples |-> 1]>>],
             [exists |-> TRUE, lines |-> <<csvHeader, [kind |-> "row", run_id |-> "r0",
                                                     samples |-> 1]>>]>>,
   jsonl_only |-> <<[exists |-> TRUE, lines |-> <<[run_id |-> "r0", samples |-> 1]>>],
                   NoSuchFile>>]

HistoryInit ==
  /\ metricsJson = NoSuchFile
  /\ hStart \in DOMAIN HistoryStarts
  /\ historyJsonl = HistoryStarts[hStart][1]
  /\ historyCsv = HistoryStarts[hStart][2]
  /\ runsTried = 0 /\ runsPersisted = 0
  /\ WeekIdle
  /\ TrendsIdle
  /\ EvalIdle
  /\ CollateIdle
  /\ TestIdle
  /\ PipeIdle

\* evaluateDummyModel reaches persistHistory(metrics) (lines 260-302)
PersistHistory(record) ==
  /\ runsTried < MaxRuns
  /\ historyJsonl' = appendFileSync(historyJsonl, record)
  /\ historyCsv' = persistCsv(historyCsv, record)
  /\ runsTried' = runsTried + 1
  /\ runsPersisted' = runsPersisted + 1
  /\ UNCHANGED <<metricsJson, hStart, ExceptHistory>>

\* evaluateDummyModel throws in loadResults or computeMetrics (lines 238-239)
EvaluationThrows ==
  /\ runsTried < MaxRuns
  /\ runsTried' = runsTried + 1
  /\ UNCHANGED <<metricsJson, historyJsonl, historyCsv, hStart, runsPersisted, ExceptHistory>>

HistoryNext ==
  \/ \E record \in HistoryRecords : PersistHistory(record)
  \/ EvaluationThrows

SpecHistory == HistoryInit /\ [][HistoryNext]_vars

\* ------------------------------------------- one run of evaluateDummyModel
\* metrics.json before the run: missing, or left by an earlier run.
MetricsStarts == {NoSuchFile, [exists |-> TRUE, lines |-> <<[samples |-> 99]>>]}

\* Rows of the results file in a run that goes on to write its outputs.
RunRowPool == {ResultRow("g1", RInt(3), RInt(3)), ResultRow("g2", RInt(-4), RInt(-10))}

\* process.env.DEMO_RUN_ID ?? now.toISOString()
RunIds == {"r1", "r2"}

EvaluateInit ==
  /\ rows = <<>> /\ metaByGame = <<>> /\ ei = 0 /\ correct = 0
  /\ buckets = <<>> /\ visited = <<>> /\ metrics = NoMetrics /\ epc = "start"
  /\ metricsJson \in MetricsStarts
  /\ hStart \in DOMAIN HistoryStarts
  /\ historyJsonl = HistoryStarts[hStart][1]
  /\ historyCsv = HistoryStarts[hStart][2]
  /\ runsTried = 0 /\ runsPersisted = 0
  /\ WeekIdle
  /\ TrendsIdle
  /\ CollateIdle
  /\ TestIdle
  /\ PipeIdle

\* Faulty variant: the metrics are written as soon as the rows are loaded.
metricsReady_OnLoad(pc) == pc \in {"loaded", "done"}

\* writeMetrics(metrics) follows the return of computeMetrics(rows) (lines 238-240)
metricsReady(pc) == pc = "done"

\* writeMetrics(metrics), lines 208-211
WriteMetrics ==
  /\ metricsReady(epc)
  /\ metricsJson' = writeFileSync(metricsJson, <<metrics>>)
  /\ epc' = "written"
  /\ UNCHANGED <<rows, metaByGame, ei, correct, buckets, visited, metrics,
                 historyJsonl, historyCsv, hStart, runsTried, runsPersisted,
                 weekVars, trendVars, collateVars, testVars, pipeVars>>

\* printReport(metrics); persistHistory(metrics), lines 241-242
PersistRun(runId) ==
  /\ epc = "written"
  /\ LET record == [run_id |-> runId, samples |-> metrics.samples]
     IN  /\ historyJsonl' = appendFileSync(historyJsonl, record)
         /\ historyCsv' = persistCsv(historyCsv, record)
  /\ runsTried' = runsTried + 1
  /\ runsPersisted' = runsPersisted + 1
  /\ epc' = "persisted"
  /\ UNCHANGED <<rows, metaByGame, ei, correct, buckets, visited, metrics,
                 metricsJson, hStart, weekVars, trendVars, collateVars, testVars, pipeVars>>

EvaluateNext ==
  \/ \E rs \in SeqsUpTo(RunRowPool, MaxRows) : LoadResults(rs)
  \/ ResultsMissing
  \/ NoRows
  \/ \E games \in MetaPool : StartMetrics(games)
  \/ ScoreRow
  \/ FinishMetrics
  \/ WriteMetrics
  \/ \E runId \in RunIds : PersistRun(runId)

SpecEvaluate == EvaluateInit /\ [][EvaluateNext]_vars

\* ------------------------------------------- properties of the history
IsPrefixOf(a, b) == Len(a) <= Len(b) /\ \A i \in 1..Len(a) : a[i] = b[i]

\* what one step adds to a file
AddedLines(before, after) == Len(after.lines) - Len(before.lines)

\* C13: the history is append-only.  Every step keeps all earlier lines of
\* both files in place; a run that persists adds exactly one JSONL line and
\* one CSV data row, with the header only when the CSV did not exist; from an
\* empty history, after k persisted runs the JSONL has k lines and the CSV a
\* header plus k rows.
C13_HistoryAppendOnly ==
  /\ [][/\ IsPrefixOf(historyJsonl.lines, historyJsonl'.lines)
        /\ IsPrefixOf(historyCsv.lines, historyCsv'.lines)
        /\ AddedLines(historyJsonl, historyJsonl') = runsPersisted' - runsPersisted
        /\ AddedLines(historyCsv, historyCsv')
             = IF runsPersisted' = runsPersisted THEN 0
               ELSE IF historyCsv.exists THEN 1 ELSE 2
        /\ (runsPersisted' # runsPersisted /\ ~historyCsv.exists)
             => historyCsv'.lines[1] = csvHeader]_vars
  /\ [](hStart = "empty" =>
          /\ Len(historyJsonl.lines) = runsPersisted
          /\ runsPersisted > 0 =>
               /\ Len(historyCsv.lines) = runsPersisted + 1
               /\ historyCsv.lines[1] = csvHeader
               /\ \A i \in 2..Len(historyCsv.lines) : historyCsv.lines[i].kind = "row")

\* Two persisted runs with the same run id and metrics and a failed run,
\* from an empty history: both lines are kept.
C13_Witness ==
  /\ hStart = "empty"
  /\ runsPersisted = 2 /\ runsTried = 3
  /\ historyJsonl.lines[1] = historyJsonl.lines[2]
  /\ Len(historyCsv.lines) = 3

\* ------------------------------------------- calculators.test.ts
\* The copies of the play-count calculator the repository holds.
PlayCountCopies == {"offensive_play_count", "offensive_play_count_any"}

\* Plays handed to accumulate, all of game g1: A's run on 2nd down, sack,
\* rush and punt; A's 3rd downs (converted pass, failed run, field goal
\* attempt); B's interception on 1st down and failed 3rd down; a row
\* without posteam.
TestPlayPool ==
  {p \in PlayPool : p = BasePlay \/ p.interception \/ p.posteam = ""
                    \/ (p.down = Num(3) /\ p.first_down)}
  \cup {[BasePlay EXCEPT !.play_type = "sack"],
        [BasePlay EXCEPT !.play_type = "rush", !.down = Num(1)],
        [BasePlay EXCEPT !.play_type = "punt", !.down = Num(4)],
        [BasePlay EXCEPT !.down = Num(3)],
        [BasePlay EXCEPT !.down = Num(3), !.play_type = "field_goal"],
        [BasePlay EXCEPT !.down = Num(3), !.posteam = "B", !.defteam = "A"]}

\* createContext() and calculator.init?.(ctx): a context of team A over an
\* empty stats object, without allow-list
TestInit ==
  /\ tCalc \in PlayCountCopies \cup EfficiencyCopies
  /\ tCtx = CalcInit(tCalc, buildStatContext(NewEntry("gid", "A"), NoAllowList))
  /\ tPlays = <<>>
  /\ tFinalized = FALSE
  /\ WeekIdle
  /\ TrendsIdle
  /\ EvalIdle
  /\ CollateIdle
  /\ HistoryIdle
  /\ PipeIdle

\* calculator.accumulate?.(play, ctx), on the same context object
TestAccumulate(play) ==
  /\ ~tFinalized
  /\ Len(tPlays) < MaxPlays
  /\ tCtx' = CalcAccumulate(tCalc, play, tCtx)
  /\ tPlays' = Append(tPlays, play)
  /\ UNCHANGED <<tCalc, tFinalized, AllStages, collateVars, historyVars, pipeVars>>

\* calculator.finalize?.(ctx)
TestFinalize ==
  /\ ~tFinalized
  /\ tCtx' = CalcFinalize(tCalc, tCtx)
  /\ tFinalized' = TRUE
  /\ UNCHANGED <<tCalc, tPlays, AllStages, collateVars, historyVars, pipeVars>>

TestNext ==
  \/ \E play \in TestPlayPool : TestAccumulate(play)
  \/ TestFinalize

SpecCalcTest == TestInit /\ [][TestNext]_vars

\* ------------------------------------------- properties of the play count
OffensiveTypeCalls == {i \in 1..Len(tPlays) : tPlays[i].play_type \in {"run", "rush", "pass", "sack"}}

OffPlaysCounted == IF "off_plays" \in DOMAIN tCtx.stats THEN tCtx.stats["off_plays"] ELSE Zero

ThirdDownCalls ==
  {i \in 1..Len(tPlays) : /\ tPlays[i].posteam = tCtx.team
                          /\ tPlays[i].play_type \in {"run", "rush", "pass", "sack"}
                          /\ tPlays[i].down = Num(3)}

\* C19: off_3rd_down_att is the number of the team's run/rush/pass/sack
\* plays with down = 3, off_3rd_down_conv the number of those that gained a
\* first down (so conv <= att), and after finalize off_3rd_down_pct is
\* conv / att whenever att > 0.
C19_ThirdDownCounts ==
  tCalc \in EfficiencyCopies =>
    LET att == Cardinality(ThirdDownCalls)
        conv == Cardinality({i \in ThirdDownCalls : tPlays[i].first_down})
    IN  /\ tCtx.stats["off_3rd_down_att"] = RInt(att)
        /\ tCtx.stats["off_3rd_down_conv"] = RInt(conv)
        /\ RLe(tCtx.stats["off_3rd_down_conv"], tCtx.stats["off_3rd_down_att"])
        /\ (tFinalized /\ att > 0) =>
             tCtx.stats["off_3rd_down_pct"] = RDiv(RInt(conv), RInt(att))

\* The test's case, with two plays that must not count: a converted and a
\* failed 3rd down, a 3rd-down field goal attempt; pct = 1/2.
C19_Witness ==
  /\ tCalc \in EfficiencyCopies
  /\ tFinalized
  /\ Len(tPlays) = 3
  /\ \E i \in 1..3 : tPlays[i].down = Num(3) /\ tPlays[i].play_type = "field_goal"
  /\ tCtx.stats["off_3rd_down_att"] = RInt(2)
  /\ tCtx.stats["off_3rd_down_conv"] = One
  /\ tCtx.stats["off_3rd_down_pct"] = <<1, 2>>

\* ------------------------------------------- pipeline.ts
ExceptPipe == <<AllStages, collateVars, historyVars, testVars>>

\* What a step's action does: run a Python script in a child process, run
\* one after checking context.week, import and call a TypeScript step, or
\* only log a line.
stepCatalog ==
  [fetchHistorical |-> "python", fetchCurrent |-> "python", updateCurrentWeek |-> "python",
   buildGameStats |-> "import", processStats |-> "log", analyzeStats |-> "log",
   trainModel |-> "python", runModel |-> "python", runModelForWeek |-> "python_week",
   generateResults |-> "import", collateData |-> "import", buildTrends |-> "import",
   renderMetricsHistory |-> "import", validateModel |-> "import"]

SCENARIOS ==
  [fetch_historical |-> <<"fetchHistorical">>,
   fetch_current |-> <<"fetchCurrent">>,
   fetch_update_current_week |-> <<"updateCurrentWeek">>,
   process_stats |-> <<"processStats">>,
   build_game_stats |-> <<"buildGameStats">>,
   collate_data |-> <<"collateData">>,
   build_trends |-> <<"buildTrends">>,
   build_current_stats |-> <<"processStats", "buildGameStats", "buildTrends", "collateData">>,
   build_historical_stats |-> <<"processStats", "buildGameStats", "buildTrends", "collateData">>,
   train_model |-> <<"trainModel", "runModel", "validateModel", "renderMetricsHistory">>,
   train_model_full |-> <<"processStats", "buildGameStats", "buildTrends", "collateData",
                          "trainModel", "runModel", "generateResults", "validateModel",
                          "renderMetricsHistory">>,
   inference_run |-> <<"runModel">>,
   report_metrics_history |-> <<"renderMetricsHistory">>,
   run_week_predictions |-> <<"runModelForWeek">>,
   refresh_full |-> <<"fetchCurrent", "processStats", "buildGameStats", "buildTrends",
                      "collateData", "trainModel", "runModel", "generateResults",
                      "validateModel", "renderMetricsHistory">>]

\* --scenario values: the defined scenarios and one that is not defined
ScenarioArgs == DOMAIN SCENARIOS \cup {"no_such_scenario"}

NaNValue == [t |-> "nan", v |-> 0]

\* --week values as yargs hands them over: absent, a number, NaN
WeekArgs == {Undefined, Num(5), NaNValue}

\* Number.isFinite(parsed.week) ? Number(parsed.week) : undefined
weekOf(parsed) == IF parsed.t = "number" THEN parsed ELSE Undefined

\* What the child reports on 'exit': a code, or null when a signal ended it
ExitCodes == {Num(0), Num(1), Num(2), Null}

\* A variant of the 'exit' handler that resolves whatever the code is.
onExit_AlwaysResolve(code) == "resolve"

\* child.on('exit', (code) => code === 0 ? resolve() : reject(...))
onExit(code) == IF code = Num(0) THEN "resolve" ELSE "reject"

stepsOf(scenario) == IF scenario \in DOMAIN SCENARIOS THEN SCENARIOS[scenario] ELSE <<>>

\* The state when main() is called: the command line is parsed.
PipeInit ==
  /\ pScenario \in ScenarioArgs
  /\ pDryRun \in BOOLEAN
  /\ pList \in BOOLEAN
  /\ pWeek \in WeekArgs
  /\ pIdx = 0
  /\ pPhase = "parsed"
  /\ pStarted = <<>>
  /\ pCompleted = <<>>
  /\ pFailed = 0
  /\ pError = ""
  /\ exitCode = Undefined
  /\ WeekIdle
  /\ TrendsIdle
  /\ EvalIdle
  /\ CollateIdle
  /\ HistoryIdle
  /\ TestIdle

\* main() up to the call of runPipeline
MainStart ==
  /\ pPhase = "parsed"
  /\ IF pList THEN pPhase' = "returned" /\ UNCHANGED <<pIdx, exitCode>>
     ELSE IF pScenario \notin DOMAIN SCENARIOS
     THEN pPhase' = "returned" /\ exitCode' = Num(1) /\ UNCHANGED pIdx
     ELSE pPhase' = "loop" /\ pIdx' = 1 /\ UNCHANGED exitCode
  /\ UNCHANGED <<pScenario, pDryRun, pList, pWeek, pStarted, pCompleted, pFailed, pError,
                 ExceptPipe>>

\* one iteration of the for loop under dry-run: the step is logged and skipped
SkipStep ==
  /\ pPhase = "loop"
  /\ pIdx <= Len(stepsOf(pScenario))
  /\ pDryRun
  /\ pIdx' = pIdx + 1
  /\ UNCHANGED <<pScenario, pDryRun, pList, pWeek, pPhase, pStarted, pCompleted, pFailed,
                 pError, exitCode, ExceptPipe>>

\* step.action(context) is called: a child is spawned, an import begins, or
\* runModelForWeek throws because context.week is undefined
StartStep ==
  /\ pPhase = "loop"
  /\ pIdx <= Len(stepsOf(pScenario))
  /\ ~pDryRun
  /\ LET step == stepsOf(pScenario)[pIdx]
         kind == stepCatalog[step]
     IN  /\ pStarted' = Append(pStarted, step)
         /\ IF kind = "python_week" /\ weekOf(pWeek) = Undefined
            THEN /\ pPhase' = "rejected"
                 /\ pFailed' = pIdx
                 /\ pError' = "Week number is required for runModelForWeek."
            ELSE /\ pPhase' = IF kind \in {"python", "python_week"} THEN "child" ELSE "action"
                 /\ UNCHANGED <<pFailed, pError>>
  /\ UNCHANGED <<pScenario, pDryRun, pList, pWeek, pIdx, pCompleted, exitCode, ExceptPipe>>

\* `${script} exited with code ${code}`
exitMessage(code) ==
  IF code = Null THEN "exited with code null"
  ELSE IF code = Num(1) THEN "exited with code 1" ELSE "exited with code 2"

\* the child's 'exit' event
ChildExit(code) ==
  /\ pPhase = "child"
  /\ pFailed' = IF code = Num(0) THEN pFailed ELSE pIdx
  /\ IF onExit(code) = "resolve"
     THEN /\ pCompleted' = Append(pCompleted, stepsOf(pScenario)[pIdx])
          /\ pIdx' = pIdx + 1
          /\ pPhase' = "loop"
          /\ UNCHANGED pError
     ELSE /\ pPhase' = "rejected"
          /\ pError' = exitMessage(code)
          /\ UNCHANGED <<pCompleted, pIdx>>
  /\ UNCHANGED <<pScenario, pDryRun, pList, pWeek, pStarted, exitCode, ExceptPipe>>

\* the child's 'error' event: the script could not be spawned
ChildError ==
  /\ pPhase = "child"
  /\ pFailed' = pIdx
  /\ pPhase' = "rejected"
  /\ pError' = "spawn error"
  /\ UNCHANGED <<pScenario, pDryRun, pList, pWeek, pIdx, pStarted, pCompleted, exitCode,
                 ExceptPipe>>

\* an in-process action resolves
ActionResolves ==
  /\ pPhase = "action"
  /\ pCompleted' = Append(pCompleted, stepsOf(pScenario)[pIdx])
  /\ pIdx' = pIdx + 1
  /\ pPhase' = "loop"
  /\ UNCHANGED <<pScenario, pDryRun, pList, pWeek, pStarted, pFailed, pError, exitCode,
                 ExceptPipe>>

\* an imported step throws
ActionThrows ==
  /\ pPhase = "action"
  /\ stepCatalog[stepsOf(pScenario)[pIdx]] = "import"
  /\ pFailed' = pIdx
  /\ pPhase' = "rejected"
  /\ pError' = "step error"
  /\ UNCHANGED <<pScenario, pDryRun, pList, pWeek, pIdx, pStarted, pCompleted, exitCode,
                 ExceptPipe>>

\* the for loop is exhausted: runPipeline and main return
PipelineFinished ==
  /\ pPhase = "loop"
  /\ pIdx > Len(stepsOf(pScenario))
  /\ pPhase' = "returned"
  /\ UNCHANGED <<pScenario, pDryRun, pList, pWeek, pIdx, pStarted, pCompleted, pFailed,
                 pError, exitCode, ExceptPipe>>

\* main().catch((error) => { process.exitCode = 1 })
MainCatch ==
  /\ pPhase = "rejected"
  /\ exitCode' = Num(1)
  /\ pPhase' = "caught"
  /\ UNCHANGED <<pScenario, pDryRun, pList, pWeek, pIdx, pStarted, pCompleted, pFailed,
                 pError, ExceptPipe>>

\* nothing is pending any more and the process exits with exitCode ?? 0
ProcessExit ==
  /\ pPhase \in {"returned", "caught"}
  /\ pPhase' = "exited"
  /\ UNCHANGED <<pScenario, pDryRun, pList, pWeek, pIdx, pStarted, pCompleted, pFailed,
                 pError, exitCode, ExceptPipe>>

PipeNext ==
  \/ MainStart
  \/ SkipStep
  \/ StartStep
  \/ \E code \in ExitCodes : ChildExit(code)
  \/ ChildError
  \/ ActionResolves
  \/ ActionThrows
  \/ PipelineFinished
  \/ MainCatch
  \/ ProcessExit

SpecPipeline == PipeInit /\ [][PipeNext]_vars

\* ------------------------------------------- properties of the pipeline
\* C20: the steps of a scenario are started one at a time in listed order,
\* a step starts only when every step started before it has completed and
\* none has failed; after a step failed (non-zero exit code, signal, spawn
\* error, throw) it stays the last step started, so no later step starts and
\* the failed one is not started again, and the process exits with code 1.
C20_SequentialAbortOnFailure ==
  /\ [](/\ IsPrefixOf(pStarted, stepsOf(pScenario))
        /\ IsPrefixOf(pCompleted, pStarted)
        /\ Len(pStarted) - Len(pCompleted) <= 1
        /\ pFailed # 0 => (Len(pStarted) = pFailed /\ Len(pCompleted) = pFailed - 1)
        /\ (pFailed # 0 /\ pPhase = "exited") => exitCode = Num(1))
  /\ [][/\ pStarted' # pStarted => (pCompleted = pStarted /\ pFailed = 0)
        /\ pFailed # 0 => pFailed' = pFailed]_vars

\* The second script of train:model failed after the first had
\* completed: two steps started, one completed, the process exited with 1.
C20_Witness ==
  /\ pScenario = "train_model"
  /\ pPhase = "exited"
  /\ pStarted = <<"trainModel", "runModel">>
  /\ pCompleted = <<"trainModel">>
  /\ pFailed = 2
  /\ exitCode = Num(1)

\* ------------------------------------------- listSeasonWeeks
\* File names are sequences of characters.
Chars(str) ==
  CASE str = "1.json" -> <<"1", ".", "j", "s", "o", "n">>
    [] str = "2.json" -> <<"2", ".", "j", "s", "o", "n">>
    [] str = "10.json" -> <<"1", "0", ".", "j", "s", "o", "n">>
    [] str = "1a.json" -> <<"1", "a", ".", "j", "s", "o", "n">>
    [] str = "w1.json" -> <<"w", "1", ".", "j", "s", "o", "n">>
    [] str = "notes.txt" -> <<"n", "o", "t", "e", "s", ".", "t", "x", "t">>

\* What readdirSync(seasonDir) may hold
FileNames == {"1.json", "2.json", "10.json", "1a.json", "w1.json", "notes.txt"}

DigitValue == [c \in {"0", "1", "2"} |-> IF c = "0" THEN 0 ELSE IF c = "1" THEN 1 ELSE 2]

\* The collation order of the characters in use: punctuation, digits, letters
Collation == <<".", "0", "1", "2", "a", "e", "j", "n", "o", "s", "t", "w", "x">>

CharRank(c) == CHOOSE i \in DOMAIN Collation : Collation[i] = c

\* f.endsWith('.json')
endsWithJson(name) ==
  LET cs == Chars(name)
  IN  Len(cs) >= 5 /\ SubSeq(cs, Len(cs) - 4, Len(cs)) = <<".", "j", "s", "o", "n">>

\* a.replace('.json', ''): the first occurrence is removed
replaceJson(cs) ==
  LET hits == {i \in 1..Len(cs) : i + 4 <= Len(cs)
                                  /\ SubSeq(cs, i, i + 4) = <<".", "j", "s", "o", "n">>}
  IN  IF hits = {} THEN cs
      ELSE LET i == CHOOSE h \in hits : \A g \in hits : h <= g
           IN  SubSeq(cs, 1, i - 1) \o SubSeq(cs, i + 5, Len(cs))

RECURSIVE DecimalOf(_, _)
DecimalOf(cs, acc) ==
  IF cs = <<>> THEN acc ELSE DecimalOf(Tail(cs), 10 * acc + DigitValue[Head(cs)])

\* Number(token): the empty string is 0, a string of digits its value,
\* anything else here NaN
NumberOfToken(cs) ==
  IF \A i \in 1..Len(cs) : cs[i] \in DOMAIN DigitValue THEN Num(DecimalOf(cs, 0))
  ELSE NaNValue

RECURSIVE localeCompare(_, _)
\* a.localeCompare(b) on character sequences: negative, 0 or positive
localeCompare(a, b) ==
  IF a = <<>> THEN (IF b = <<>> THEN 0 ELSE -1)
  ELSE IF b = <<>> THEN 1
  ELSE IF CharRank(Head(a)) < CharRank(Head(b)) THEN -1
  ELSE IF CharRank(Head(a)) > CharRank(Head(b)) THEN 1
  ELSE localeCompare(Tail(a), Tail(b))

\* the compare function handed to sort
compareWeeks(a, b) ==
  LET aNum == NumberOfToken(replaceJson(Chars(a)))
      bNum == NumberOfToken(replaceJson(Chars(b)))
  IN  IF IsNum(aNum) /\ IsNum(bNum) THEN aNum.v - bNum.v
      ELSE localeCompare(Chars(a), Chars(b))

Reverse(a) == [i \in 1..Len(a) |-> a[Len(a) + 1 - i]]

RECURSIVE RunLength(_, _, _)
\* The length of the ascending, or strictly descending, run the array
\* starts with (idx is the next position to look at).
RunLength(a, idx, descending) ==
  IF idx > Len(a) THEN Len(a)
  ELSE LET order == compareWeeks(a[idx], a[idx - 1])
       IN  IF (descending /\ order >= 0) \/ (~descending /\ order < 0) THEN idx - 1
           ELSE RunLength(a, idx + 1, descending)

RECURSIVE BinarySearch(_, _, _, _)
\* Where the pivot goes among the first `right` elements (0-based bounds)
BinarySearch(a, pivot, left, right) ==
  IF left >= right THEN left
  ELSE LET mid == left + ((right - left) \div 2)
       IN  IF compareWeeks(pivot, a[mid + 1]) < 0 THEN BinarySearch(a, pivot, left, mid)
           ELSE BinarySearch(a, pivot, mid + 1, right)

RECURSIVE BinaryInsertionSort(_, _)
\* The elements after the first `start` ones are inserted one by one.
BinaryInsertionSort(a, start) ==
  IF start >= Len(a) THEN a
  ELSE LET pivot == a[start + 1]
           left == BinarySearch(a, pivot, 0, start)
           b == [i \in 1..Len(a) |->
                   IF i <= left THEN a[i]
                   ELSE IF i = left + 1 THEN pivot
                   ELSE IF i <= start + 1 THEN a[i - 1]
                   ELSE a[i]]
       IN  BinaryInsertionSort(b, start + 1)

\* Array.prototype.sort(compare) as Node sorts an array of fewer than 64
\* elements: the leading run is found (and reversed when descending), the
\* rest is inserted by binary search.
sortWeeks(a) ==
  IF Len(a) < 2 THEN a
  ELSE LET descending == compareWeeks(a[2], a[1]) < 0
           run == RunLength(a, 3, descending)
           b == IF descending THEN Reverse(SubSeq(a, 1, run)) \o SubSeq(a, run + 1, Len(a))
                ELSE a
       IN  BinaryInsertionSort(b, run)

\* The arrays listSeasonWeeks may return for a directory: readdirSync lists
\* the names in an order the file system chooses.
listSeasonWeeks(dir) ==
  LET names == {f \in dir : endsWithJson(f)}
      n == Cardinality(names)
      orders == {p \in [1..n -> names] : \A i \in 1..n, j \in 1..n : i # j => p[i] # p[j]}
  IN  {sortWeeks(p) : p \in orders}

TextValue == [t |-> "text", v |-> 0]

\* The derived and meta files of a name: A hosts B in the game of a numbered
\* week; a file without a week number holds a row whose week is no number.
SeasonFile(name) ==
  LET w == NumberOfToken(replaceJson(Chars(name)))
  IN  IF IsNum(w)
      THEN [week |-> w.v,
            derived |-> DerivedFile(<<DerivedRowOf(w.v, "A", BlockA),
                                      DerivedRowOf(w.v, "B", BlockB)>>),
            meta |-> DerivedFile(<<MetaRowOf(w.v, "A", "B")>>)]
      ELSE [week |-> 0,
            derived |-> DerivedFile(<<[week |-> TextValue, game_id |-> 0, team |-> "A",
                                       stats |-> BlockC]>>),
            meta |-> DerivedFile(<<>>)]

\* buildSeasonTrends up to weeks.forEach
ListingInit ==
  /\ \E dir \in SUBSET FileNames : weeks \in listSeasonWeeks(dir)
  /\ twk = 0 /\ lastWeek = Len(weeks) /\ season1 = <<>> /\ season2 = <<>>
  /\ run1 = NoRun /\ run2 = NoRun /\ tpc = "weeks"
  /\ WeekIdle
  /\ EvalIdle
  /\ LaterIdle

\* One iteration of weeks.forEach
VisitWeekFile ==
  /\ tpc = "weeks"
  /\ twk < Len(weeks)
  /\ twk' = twk + 1
  /\ season1' = Append(season1, SeasonFile(weeks[twk + 1]))
  /\ run1' = weekStep(run1, SeasonFile(weeks[twk + 1]))
  /\ UNCHANGED <<lastWeek, season2, run2, tpc, weeks, weekVars, evalVars, laterVars>>

\* weeks.forEach returns
ListingDone ==
  /\ tpc = "weeks"
  /\ twk = Len(weeks)
  /\ tpc' = "done"
  /\ UNCHANGED <<twk, lastWeek, season1, season2, run1, run2, weeks, weekVars, evalVars,
                 laterVars>>

ListingNext ==
  \/ VisitWeekFile
  \/ ListingDone

SpecListing == ListingInit /\ [][ListingNext]_vars

\* ------------------------------------------- properties of the week order
WeekOfName(name) == NumberOfToken(replaceJson(Chars(name)))

\* C21: week files are processed in strictly ascending numeric week order,
\* files without a week number in lexical order among themselves, and every
\* team's history list is ordered by non-decreasing week at every point.
C21_AscendingWeekOrder ==
  /\ \A i \in 1..Len(weeks), j \in 1..Len(weeks) :
       i < j =>
         /\ (IsNum(WeekOfName(weeks[i])) /\ IsNum(WeekOfName(weeks[j])))
              => WeekOfName(weeks[i]).v < WeekOfName(weeks[j]).v
         /\ (~IsNum(WeekOfName(weeks[i])) /\ ~IsNum(WeekOfName(weeks[j])))
              => localeCompare(Chars(weeks[i]), Chars(weeks[j])) < 0
  /\ \A t \in Teams : \A i \in 1..Len(run1.historyByTeam[t]) :
       \A j \in 1..Len(run1.historyByTeam[t]) :
         i < j => run1.historyByTeam[t][i].week <= run1.historyByTeam[t][j].week

\* ------------------------------------------- properties of further lists
\* the rows of a game in which a team is on defense, of offensive type
DefensivePlaysOf(gameId, team) ==
  {i \in 1..Len(plays) : /\ plays[i].game_id = gameId
                         /\ plays[i].defteam = team
                         /\ isOffPlay(plays[i])}

\* C22: with the defense calculator in the list, a returned row's def_plays
\* is the number of the game's run/rush/pass/sack plays whose defteam is the
\* row's team.
C22_DefenseSeesDefensivePlays ==
  (wpc = "done" /\ \E c \in 1..Len(calcs) : calcs[c] = "defense_basic") =>
    \A r \in 1..Len(teamStatsByKey) :
      StatOr0(teamStatsByKey[r].stats, "def_plays")
        = RInt(Cardinality(DefensivePlaysOf(teamStatsByKey[r].game_id, teamStatsByKey[r].team)))

\* ------------------------------------------- properties of opponent strength
\* The opponents of a team in the meta rows the file of a week lists for
\* the week's game (none when the meta file does not list it).
OpponentsIn(season, v, team) ==
  {o \in Teams \ {team} :
     \E m \in 1..Len(season[v].meta.rows) :
       /\ season[v].meta.rows[m].game_id = v
       /\ {season[v].meta.rows[m].home_team, season[v].meta.rows[m].away_team} = {team, o}}

\* The mean of a field over the consumed rows of a team before week x, 0
\* when no such row carries it.
OpponentField(season, opp, x, k) ==
  LET H == ProcessedRowsBefore(season, opp, x)
  IN  IF Carriers(season, H, k) = {} THEN Zero ELSE MeanOf(season, H, k)

\* The mean, over the prior games of a team at week w whose opponent has
\* consumed rows before the week cut(v) of the game at week v, of the
\* opponent's mean of field k over those rows.
OpponentMean(season, team, w, k, cut) ==
  LET G == {p \in ProcessedRowsBefore(season, team, w) :
              \E o \in OpponentsIn(season, p[1], team) :
                ProcessedRowsBefore(season, o, cut[p[1]]) # {}}
      oppOf(p) == CHOOSE o \in OpponentsIn(season, p[1], team) : TRUE
  IN  IF G = {} THEN Zero
      ELSE RDiv(RSumOver(G, [p \in G |-> OpponentField(season, oppOf(p), cut[p[1]], k)]),
                RInt(Cardinality(G)))

OpponentValuesAre(cut) ==
  \A i \in 1..Len(run1.trendsForWeek) :
    LET tr == run1.trendsForWeek[i]
    IN  /\ tr.stats.season["avg_opponent_off_epa_per_play"]
             = OpponentMean(season1, tr.team, twk, "off_epa_per_play", cut)
        /\ tr.stats.season["avg_opponent_def_epa_per_play"]
             = OpponentMean(season1, tr.team, twk, "def_epa_per_play", cut)

\* C23 as stated: for each prior game, at week g, the opponent contributes
\* the average of its own history entries with week < g, and the reported
\* avg_opponent values are the mean of these per-game averages.
C23_OpponentHistoryBeforeGame == OpponentValuesAre([v \in 1..twk |-> v])

\* C23, amended: for each prior game the opponent contributes the average
\* of its own history entries with week < W, the week of the trend row.
C23_OpponentHistoryBeforeRowWeek == OpponentValuesAre([v \in 1..twk |-> twk])

\* A trend row at week 3 of a team with two prior games against an opponent
\* whose own rows of weeks 1 and 2 differ, so that the opponent's average
\* before week 3 is not its week-1 row.
C23_Witness ==
  /\ twk = 3
  /\ \E i \in 1..Len(run1.trendsForWeek) :
       LET tr == run1.trendsForWeek[i]
       IN  /\ tr.games_played = 2
           /\ tr.stats.season["avg_opponent_off_epa_per_play"] # Zero
           /\ tr.stats.season["avg_opponent_off_epa_per_play"]
                # OpponentMean(season1, tr.team, 3, "off_epa_per_play", [v \in 1..3 |-> v])

\* ------------------------------------------- properties of the cover buckets
\* C24: a scored row is counted in favorite_predicted_cover exactly when the
\* predicted margin has the favorite cover the spread (the home team beats a
\* positive spread, the away team a negative one), in
\* underdog_predicted_cover exactly when it has the underdog cover, and in
\* exactly one of the two.
C24_CoverBucketsFollowFavorite ==
  \A i \in 1..Len(visited) :
    visited[i].scored =>
      LET d == Sign(RSub(rows[i].predicted_margin, SpreadOf(i)))
          side == Sign(SpreadOf(i))
          in == CountedIn(i) \cap {"favorite_predicted_cover", "underdog_predicted_cover"}
      IN  /\ Cardinality(in) = 1
          /\ (side # 0 /\ d = side) => in = {"favorite_predicted_cover"}
          /\ (side # 0 /\ d = -side) => in = {"underdog_predicted_cover"}

\* ------------------------------------------- properties of calculator lists
RECURSIVE TableAfter(_, _, _)
\* teamStatsByKey after the play loop over the rows ps with the list cs
TableAfter(ps, cs, allowed) ==
  IF ps = <<>> THEN <<>>
  ELSE
    LET table == TableAfter(SubSeq(ps, 1, Len(ps) - 1), cs, allowed)
        row == ps[Len(ps)]
        idx == KeyIndex(table, row.game_id, row.posteam)
        seeded == IF idx = 0
                  THEN EntryOf(RunInit(cs, buildStatContext(NewEntry(row.game_id, row.posteam),
                                                            allowed)))
                  ELSE table[idx]
        entry == EntryOf(RunAccumulate(cs, row, buildStatContext(seeded, allowed)))
    IN  IF row.posteam = "" \/ row.game_id = "" THEN table
        ELSE IF idx = 0 THEN Append(table, entry)
        ELSE [table EXCEPT ![idx] = entry]

\* The rows computeTeamStatsForWeek returns for the rows ps and the list cs
RowsFor(ps, cs, allowed) ==
  LET table == TableAfter(ps, cs, allowed)
  IN  [i \in 1..Len(table) |-> EntryOf(RunFinalize(cs, buildStatContext(table[i], allowed)))]

\* C25: the value a calculator produces for its stat keys in a row is the
\* one it produces when it is the only calculator in the list.
C25_CalculatorsIndependent ==
  wpc = "done" =>
    \A c \in 1..Len(calcs) :
      LET alone == RowsFor(plays, <<calcs[c]>>, allowedStats)
      IN  \A r \in 1..Len(teamStatsByKey) :
            \A k \in DOMAIN alone[r].stats :
              /\ k \in DOMAIN teamStatsByKey[r].stats
              /\ teamStatsByKey[r].stats[k] = alone[r].stats[k]


\* ------------------------------------------- play order
\* The orders the rows ps can arrive in
OrdersOf(ps) ==
  LET n == Len(ps)
      shuffles == {f \in [1..n -> 1..n] : \A i, j \in 1..n : f[i] = f[j] => i = j}
  IN  {[i \in 1..n |-> ps[f[i]]] : f \in shuffles}

\* The returned rows as a set, their position in the array forgotten
RowSet(table) ==
  {<<table[i].game_id, table[i].team, table[i].stats>> : i \in 1..Len(table)}

\* Two rows of one team's drive agree on the drive rollups both of them carry.
SameRollups(p, q) ==
  /\ (IsNum(p.drive_play_count) /\ IsNum(q.drive_play_count))
        => p.drive_play_count = q.drive_play_count
  /\ (IsNum(p.drive_first_downs) /\ IsNum(q.drive_first_downs))
        => p.drive_first_downs = q.drive_first_downs
  /\ (p.fixed_drive_result # "" /\ q.fixed_drive_result # "")
        => p.fixed_drive_result = q.fixed_drive_result

RollupsAgree(ps) ==
  \A i, j \in 1..Len(ps) :
    (/\ ps[i].game_id = ps[j].game_id
     /\ ps[i].posteam = ps[j].posteam
     /\ driveIdOf(ps[i]) = driveIdOf(ps[j]))
      => SameRollups(ps[i], ps[j])

EpaWriters == {"advanced_epa_success"}

\* The row's key, a missing key reading as 0 (ctx.stats[key] ?? 0)
RawOf(row, key) == StatOr0(row.stats, key)

ScheduleKeysOf(row) ==
  /\ {"off_epa_per_play_adj", "def_epa_per_play_adj", "avg_opponent_off_epa_per_play",
      "avg_opponent_def_epa_per_play", "strength_of_schedule_simple",
      "strength_of_schedule_epa"} \subseteq DOMAIN row.stats
  /\ row.stats["off_epa_per_play_adj"] = RawOf(row, "off_epa_per_play")
  /\ row.stats["def_epa_per_play_adj"] = RawOf(row, "def_epa_per_play")
  /\ \A k \in {"avg_opponent_off_epa_per_play", "avg_opponent_def_epa_per_play",
               "strength_of_schedule_simple", "strength_of_schedule_epa"} :
       row.stats[k] = Zero

\* C27 as stated: in every returned row of a list holding the
\* schedule-adjustment calculator the adjusted EPA values equal the row's raw
\* EPA per play and the opponent and strength-of-schedule values are 0.
C27_AdjustedEqualsRawEpa ==
  (wpc = "done" /\ \E c \in 1..Len(calcs) : calcs[c] = "schedule_adjusted") =>
    \A r \in 1..Len(teamStatsByKey) : ScheduleKeysOf(teamStatsByKey[r])

\* C27 amended: the same, for lists in which no calculator writing the raw
\* EPA per play comes after the schedule-adjustment calculator.
C27_AdjustedEqualsRawEpaComputedEarlier ==
  (/\ wpc = "done"
   /\ \E c \in 1..Len(calcs) :
        /\ calcs[c] = "schedule_adjusted"
        /\ \A d \in c..Len(calcs) : calcs[d] \notin EpaWriters) =>
    \A r \in 1..Len(teamStatsByKey) : ScheduleKeysOf(teamStatsByKey[r])

\* A row of the list [EPA calculator, schedule adjustment] whose raw
\* offensive EPA per play is not 0 was returned.
C27_Witness ==
  /\ wpc = "done"
  /\ calcs = <<"advanced_epa_success", "schedule_adjusted">>
  /\ \E r \in 1..Len(teamStatsByKey) :
       /\ teamStatsByKey[r].stats["off_epa_per_play"] # Zero
       /\ teamStatsByKey[r].stats["off_epa_per_play_adj"]
            = teamStatsByKey[r].stats["off_epa_per_play"]


\* ------------------------------------------- properties of a failed run
\* The run cannot go on: the results file is missing, or it holds no row.
FatalInput ==
  \/ epc = "no_results_file"
  \/ (epc \notin {"idle", "start"} /\ rows = <<>>)

\* C28: when the results file is missing or holds zero rows the run ends
\* with an error and no output is touched: metrics.json is as it was before
\* the run and the JSONL and CSV histories have the lines they started with.
C28_FatalErrorLeavesOutputs ==
  FatalInput =>
    /\ epc \in {"no_results_file", "loaded", "no_rows"}
    /\ metricsJson \in MetricsStarts
    /\ historyJsonl = HistoryStarts[hStart][1]
    /\ historyCsv = HistoryStarts[hStart][2]
    /\ runsPersisted = 0

\* The run threw 'No rows to evaluate.' beside an older metrics.json and a
\* history of one line.
C28_Witness ==
  /\ epc = "no_rows"
  /\ metricsJson.exists
  /\ hStart = "both"
  /\ Len(historyJsonl.lines) = 1


\* ------------------------------------------- the favorite in both steps
\* determineFavorite on the game of result row i, handed the spread the
\* evaluation resolved for it
FavoriteOf(i) ==
  LET meta == metaByGame[rows[i].game_id]
  IN  determineFavorite([spread_line |-> JNum(meta.spread_line),
                         home_team |-> meta.home_team, away_team |-> meta.away_team])

\* C29: for every scored row whose game has a favorite in the collation, the
\* evaluation counts the row in favorite_is_home exactly when that favorite
\* is the home team (in favorite_is_away otherwise), and counts a blowout
\* (an upset) exactly when that team won by more than 7 (lost by more
\* than 3); a spread of 0 included.
C29_SameFavoriteSide ==
  \A i \in 1..Len(visited) :
    (visited[i].scored /\ FavoriteOf(i).found) =>
      LET meta == metaByGame[rows[i].game_id]
          homeFavored == FavoriteOf(i).favorite = meta.home_team
          margin == IF homeFavored THEN rows[i].actual_margin
                    ELSE RNeg(rows[i].actual_margin)
      IN  /\ homeFavored <=> "favorite_is_home" \in CountedIn(i)
          /\ ~homeFavored <=> "favorite_is_away" \in CountedIn(i)
          /\ RLt(RInt(7), margin) <=> "favorite_blowout" \in CountedIn(i)
          /\ RLt(margin, RInt(-3)) <=> "upset" \in CountedIn(i)


\* ------------------------------------------- red-zone rates
\* stats[key] lies in [0, 1] when the row has the key
UnitRate(row, key) ==
  key \in DOMAIN row.stats => RLe(Zero, row.stats[key]) /\ RLe(row.stats[key], One)

\* C30: in every returned row the red-zone touchdowns do not exceed the
\* red-zone trips, on offense and on defense, and the two red-zone
\* touchdown percentages lie between 0 and 1.
C30_RedZoneTdsWithinTrips ==
  wpc = "done" =>
    \A r \in 1..Len(teamStatsByKey) :
      LET row == teamStatsByKey[r]
      IN  /\ RLe(RawOf(row, "off_red_zone_tds"), RawOf(row, "off_red_zone_trips"))
          /\ RLe(RawOf(row, "def_red_zone_tds_allowed"),
                 RawOf(row, "def_red_zone_trips_allowed"))
          /\ UnitRate(row, "off_red_zone_td_pct")
          /\ UnitRate(row, "def_red_zone_td_pct_allowed")

=============================================================================
